---- MODULE Spec2Model ----
(***************************************************************************)
(* Model of the numerical recipes of the tutorial notebooks: the Bethe     *)
(* lattice DMFT loops (IPT, single-orbital CTQMC, two-orbital CTQMC) with  *)
(* their archive output and analysis cells, and the Lindhard bubble.       *)
(*                                                                         *)
(* Complex numbers are modelled exactly in the finite field GF(7^2) =      *)
(* GF(7)[i]/(i^2 + 1): a pair <<re, im>> of residues modulo 7.  Sums,      *)
(* products, inverses, real and imaginary parts and roots of unity (hence  *)
(* discrete Fourier transforms) are computed in that field, so every       *)
(* algebraic step of the code is computed, never assumed.                  *)
(***************************************************************************)
EXTENDS Integers, Sequences, FiniteSets, TLC

\* ------------------------------------------------------------------------
\* Arithmetic of the value type (complex scalars)
\* ------------------------------------------------------------------------
Zp == 0 .. 6
P == Cardinality(Zp)
Cplx == Zp \X Zp

C(a, b) == <<a % P, b % P>>
Zero == <<0, 0>>
One == <<1, 0>>
Two == <<2, 0>>
ImagUnit == <<0, 1>>

Re(z) == z[1]
Im(z) == z[2]
Add(x, y) == C(x[1] + y[1], x[2] + y[2])
Neg(x) == C(P - x[1], P - x[2])
Sub(x, y) == Add(x, Neg(y))
Mul(x, y) == C(x[1] * y[1] + (P - 1) * x[2] * y[2], x[1] * y[2] + x[2] * y[1])

\* inverse of a non-zero residue modulo P
InvP(a) == CHOOSE b \in 1 .. (P - 1) : (a * b) % P = 1

\* 1/z = conj(z) / |z|^2; inverse of zero is kept zero (total function).
Inverse(z) ==
  IF z = Zero THEN Zero
  ELSE LET n == InvP((z[1] * z[1] + z[2] * z[2]) % P)
       IN  C(z[1] * n, (P - z[2]) * n)

RECURSIVE Pow(_, _)
Pow(z, k) == IF k = 0 THEN One ELSE Mul(z, Pow(z, k - 1))

\* the real number a / 10^k written as a decimal literal in the code
Dec(a, k) == Mul(C(a % P, 0), Pow(Inverse(C(10, 0)), k))

\* a primitive root of unity of order n (exists when n divides P^2 - 1)
Root(n) ==
  CHOOSE z \in Cplx :
    /\ z # Zero
    /\ Pow(z, n) = One
    /\ \A d \in 1 .. (n - 1) : Pow(z, d) # One

RECURSIVE SumRange(_, _, _)
\* f[lo] + ... + f[hi], added up by halves
SumRange(f, lo, hi) ==
  IF lo > hi THEN Zero
  ELSE IF lo = hi THEN f[lo]
  ELSE LET mid == (lo + hi) \div 2
       IN  Add(SumRange(f, lo, mid), SumRange(f, mid + 1, hi))

\* f[0] + f[1] + ... + f[k]
Sum(f, k) == SumRange(f, 0, k)

\* ------------------------------------------------------------------------
\* Bounds of the model
\* ------------------------------------------------------------------------
\* number of Matsubara frequencies kept on a frequency mesh
NIw == 2
\* number of distinct Monte Carlo outcomes the CTQMC solver may return
NSamples == 2

\* ------------------------------------------------------------------------
\* Parameters of the scripts
\* ------------------------------------------------------------------------
Scripts == {"ipt", "one_band", "two_band"}
Ctqmc == {"one_band", "two_band"}

\* reals of the scripts are carried in thousandths; ToF embeds them
ToF(m) == Dec(m, 3)

t == ToF(1000)
n_loops_one_band == 10
n_loops_two_band == 10
n_loops_ipt == 30
n_loops(s) ==
  CASE s = "one_band" -> n_loops_one_band
    [] s = "two_band" -> n_loops_two_band
    [] s = "ipt" -> n_loops_ipt

\* beta = 10 in the three DMFT scripts
beta == ToF(10000)
\* the image of pi in the value field
PiF == C(3, 0)

\* np.arange(a, b) with unit step, in thousandths
Arange(a, b) == [k \in 1 .. (b - a) |-> 1000 * (a + k - 1)]

RECURSIVE Flatten(_)
Flatten(ss) == IF ss = <<>> THEN <<>> ELSE Head(ss) \o Flatten(Tail(ss))

\* a sweep that stops at U = 7
OneBandSweepShort == [k \in 1 .. 7 |-> [U |-> 1000 * k, coeff |-> 0]]

\* the parameter points of each sweep, in the order the loops visit them
OneBandSweep == [k \in 1 .. 12 |-> [U |-> Arange(1, 13)[k], coeff |-> 0]]
IptSweep == [k \in 1 .. 12 |-> [U |-> Arange(0, 12)[k], coeff |-> 0]]
TwoBandCoeffs == <<0, 100, 200>>
TwoBandSweep ==
  Flatten([c \in 1 .. Len(TwoBandCoeffs) |->
            [k \in 1 .. 12 |-> [U |-> Arange(1, 13)[k], coeff |-> TwoBandCoeffs[c]]]])
Sweep(s) ==
  CASE s = "one_band" -> OneBandSweep
    [] s = "two_band" -> TwoBandSweep
    [] s = "ipt" -> IptSweep

\* J = coeff * U
JOf(p) == (p.coeff * p.U) \div 1000

\* gf_struct of the solver: the named blocks
Blocks(s) ==
  CASE s = "one_band" -> {"up", "down"}
    [] s = "two_band" -> {"up-0", "up-1", "down-0", "down-1"}
    [] s = "ipt" -> {"scalar"}
AllBlocks == UNION {Blocks(s) : s \in Scripts}
BlockOrder(s) ==
  CASE s = "one_band" -> <<"up", "down">>
    [] s = "two_band" -> <<"up-0", "up-1", "down-0", "down-1">>
    [] s = "ipt" -> <<"scalar">>
BlockIndex(s, b) == CHOOSE k \in 1 .. Len(BlockOrder(s)) : BlockOrder(s)[k] = b

\* ------------------------------------------------------------------------
\* Meshes and Fourier transforms
\* ------------------------------------------------------------------------
\* Matsubara indices kept, and the imaginary-time points tau_j = j*beta/NIw,
\* j = 0 .. NIw (both end points 0 and beta belong to the mesh)
IwMesh == 0 .. (NIw - 1)
TauMesh == 0 .. NIw

\* fermionic Matsubara frequency i*omega_n = i*(2n+1)*pi/beta
iOmega_n(n) == Mul(ImagUnit, Mul(C(2 * n + 1, 0), Mul(PiF, Inverse(beta))))
\* bosonic Matsubara frequency i*2n*pi/beta
iOmega_nBoson(n) == Mul(ImagUnit, Mul(C(2 * n, 0), Mul(PiF, Inverse(beta))))

\* exp(i*pi/NIw): exp(i*omega_n*tau_j) = Zeta^((2n+1)*j)
Zeta == Root(2 * NIw)
ZetaBar == Inverse(Zeta)

\* G(tau_j) = (1/beta) sum_n exp(-i omega_n tau_j) G(i omega_n)
FourierToTau(giw) ==
  [j \in TauMesh |->
     Mul(Inverse(beta),
         Sum([n \in IwMesh |-> Mul(Pow(ZetaBar, (2 * n + 1) * j), giw[n])], NIw - 1))]

\* G(i omega_n) = int_0^beta dtau exp(i omega_n tau) G(tau), as the sum over
\* the NIw intervals of width beta/NIw
FourierToFreq(gtau) ==
  [n \in IwMesh |->
     Mul(Mul(beta, Inverse(C(NIw, 0))),
         Sum([j \in 0 .. (NIw - 1) |-> Mul(Pow(Zeta, (2 * n + 1) * j), gtau[j])], NIw - 1))]

\* SemiCircular(2*t): the Green's function of the semicircular density of
\* states of half bandwidth 2t, the solution of g = 1/(i omega_n - t^2 g)
SemiCircular ==
  [n \in IwMesh |->
     CHOOSE g \in Cplx :
       Add(Sub(Mul(Mul(t, t), Mul(g, g)), Mul(iOmega_n(n), g)), One) = Zero]

ZeroIw == [n \in IwMesh |-> Zero]
ZeroTau == [j \in TauMesh |-> Zero]

\* ------------------------------------------------------------------------
\* The impurity solvers and the self-consistency condition
\* ------------------------------------------------------------------------
\* U**2 * G0_tau * G0_tau * G0_tau
\* a self-energy of first order in U
IptSigmaTauLinearU(U, g0tau) ==
  [j \in TauMesh |-> Mul(U, Mul(Mul(g0tau[j], g0tau[j]), g0tau[j]))]

IptSigmaTau(U, g0tau) ==
  [j \in TauMesh |-> Mul(Mul(U, U), Mul(Mul(g0tau[j], g0tau[j]), g0tau[j]))]

\* inverse(inverse(G0_iw) - Sigma_iw)
Dyson(g0iw, sigma) ==
  [n \in IwMesh |-> Inverse(Sub(Inverse(g0iw[n]), sigma[n]))]

\* outcome number k of a Monte Carlo run, for block b: outcome 1 is the same
\* in every block, the others differ from block to block (polarized)
McSample(k, s, b) ==
  [n \in IwMesh |-> C(k + (k - 1) * BlockIndex(s, b), n + k)]

\* the self-energy the CTQMC solver returns with G: G0^-1 - G^-1
CtqmcSigma(g0iw, giw) ==
  [n \in IwMesh |-> Sub(Inverse(g0iw[n]), Inverse(giw[n]))]

\* chemical potential of each script
IptMu(p) == Zero
\* a chemical potential of U instead of U/2
OneBandMuFullU(p) == ToF(p.U)

OneBandMu(p) == Mul(ToF(p.U), Inverse(ToF(2000)))
TwoBandMu(f, p) ==
  LET U == ToF(p.U)
      J == ToF(JOf(p))
      c == ToF(p.coeff)
  IN  IF f = "half"
      THEN Add(Add(Mul(Dec(5, 1), U),
                   Mul(Dec(5, 1), Sub(U, Mul(ToF(2000), J)))),
               Mul(Dec(5, 1), Sub(U, Mul(ToF(3000), J))))
      ELSE Add(Add(Neg(Dec(81, 2)),
                   Mul(Sub(Dec(6899, 4), Mul(Dec(11099, 4), c)), U)),
               Mul(Sub(Add(Neg(Dec(2548, 5)), Mul(Dec(2709, 5), c)),
                       Mul(Dec(1606, 4), Mul(c, c))),
                   Mul(U, U)))
Mu(s, f, p) ==
  CASE s = "ipt" -> IptMu(p)
    [] s = "one_band" -> OneBandMu(p)
    [] s = "two_band" -> TwoBandMu(f, p)

\* inverse(iOmega_n + mu - t**2 * g)
SelfConsistency(mu, g) ==
  [n \in IwMesh |-> Inverse(Sub(Add(iOmega_n(n), mu), Mul(Mul(t, t), g[n])))]

\* the g of the self-consistency condition
SymmetrizeOneBand(G) ==
  [n \in IwMesh |-> Mul(Dec(5, 1), Add(G["up"][n], G["down"][n]))]
\* an average over the two orbitals of spin up only
SymmetrizeTwoBandUpOnly(G) ==
  [n \in IwMesh |-> Mul(Dec(5, 1), Add(G["up-0"][n], G["up-1"][n]))]

SymmetrizeTwoBand(G) ==
  [n \in IwMesh |->
     Mul(Dec(25, 2),
         Add(Add(Add(G["up-0"][n], G["up-1"][n]), G["down-0"][n]), G["down-1"][n]))]
Symmetrize(s, G) ==
  CASE s = "one_band" -> SymmetrizeOneBand(G)
    [] s = "two_band" -> SymmetrizeTwoBand(G)
    [] s = "ipt" -> G["scalar"]

\* a loop that updates G0 in every iteration
TwoBandUpdatesAlways(i) == i >= 0

\* a loop that runs one iteration more
LoopContinuesOnceMore(i, n) == i + 1 <= n

\* the two-orbital loop updates G0 only "if i > 0"
TwoBandDoesUpdate(i) == i > 0

\* for i in range(n): is there an iteration after iteration i
LoopContinues(i, n) == i + 1 < n

\* ------------------------------------------------------------------------
\* Archive names
\* ------------------------------------------------------------------------
DigitChar(d) == <<"0", "1", "2", "3", "4", "5", "6", "7", "8", "9">>[d + 1]

RECURSIVE Digits(_)
\* "%i" % n
Digits(n) ==
  IF n < 10 THEN <<DigitChar(n)>> ELSE Digits(n \div 10) \o <<DigitChar(n % 10)>>

\* "%.0f" % x
Fmt0f(m) == Digits((m + 500) \div 1000)

\* "%.2f" % x, x given in thousandths
Fmt2f(m) ==
  LET h == (m + 5) \div 10
  IN  Digits(h \div 100) \o <<".", DigitChar((h % 100) \div 10), DigitChar(h % 10)>>

OneBandFile(p) == <<"data/one_band/half-U">> \o Fmt2f(p.U) \o <<".h5">>
TwoBandFile(f, p) ==
  <<"data/two_bands/", f, "-U">> \o Fmt2f(p.U) \o <<"-J">> \o Fmt2f(JOf(p)) \o <<".h5">>
ArchiveFile(s, f, p) ==
  IF s = "one_band" THEN OneBandFile(p) ELSE TwoBandFile(f, p)

\* 'G-%i' % i and 'Sigma-%i' % i
\* keys numbered from 1
KeyGFromOne(i) == <<"G-">> \o Digits(i + 1)

KeyG(i) == <<"G-">> \o Digits(i)
KeySigma(i) == <<"Sigma-">> \o Digits(i)

\* files of an archive directory: file name -> (key -> stored object)
NoFile == [k \in {} |-> 0]
OpenAppend(files, f) ==
  IF f \in DOMAIN files THEN files
  ELSE [g \in DOMAIN files \cup {f} |-> IF g = f THEN NoFile ELSE files[g]]
Store(files, f, key, val) ==
  [files EXCEPT ![f] =
     [k \in DOMAIN files[f] \cup {key} |-> IF k = key THEN val ELSE files[f][k]]]

\* an archive that is left open
CloseArchiveLeak(hs) == hs

\* leaving the "with HDFArchive(...) as A" block closes the archive
CloseArchive(hs) == SubSeq(hs, 1, Len(hs) - 1)

\* ------------------------------------------------------------------------
\* What the analysis cells read
\* ------------------------------------------------------------------------
OneBandReads ==
  {[file |-> <<"data/one_band/half-U", "2", ".", "0", "0", ".h5">>, key |-> <<"G-", "9">>],
   [file |-> <<"data/one_band/half-U", "6", ".", "0", "0", ".h5">>, key |-> <<"G-", "9">>],
   [file |-> <<"data/one_band/half-U", "2", ".", "0", "0", ".h5">>, key |-> <<"Sigma-", "9">>],
   [file |-> <<"data/one_band/half-U", "6", ".", "0", "0", ".h5">>, key |-> <<"Sigma-", "9">>],
   [file |-> <<"data/one_band/half-U", "4", ".", "0", "0", ".h5">>, key |-> <<"G-", "9">>]}
  \cup
  {[file |-> <<"data/one_band/half-U">> \o Fmt2f(Arange(1, 9)[k]) \o <<".h5">>,
    key |-> <<"Sigma-", "9">>] : k \in 1 .. 8}
TwoBandReads(f) ==
  {[file |-> <<"data/two_band/", f, "-U">> \o Fmt2f(Arange(1, 13)[k]) \o <<"-J">>
               \o Fmt2f((c * Arange(1, 13)[k]) \div 1000) \o <<".h5">>,
    key |-> <<"G-", "9">>] : k \in 1 .. 12, c \in {0, 100, 200}}
AnalysisReads(s, f) ==
  CASE s = "one_band" -> OneBandReads
    [] s = "two_band" -> TwoBandReads(f)
    [] s = "ipt" -> {}

\* ------------------------------------------------------------------------
\* The Lindhard bubble
\* ------------------------------------------------------------------------
\* number of points of the lattice mesh along each of its two directions
LatticeL == 3
\* imaginary times are carried in ticks: TicksPerStep ticks make one mesh step
TicksPerStep == 2

NSites == LatticeL * LatticeL
\* mesh point number idx of the k mesh (brzone) and of the r mesh (cyclat)
MeshPoint(idx) == <<idx \div LatticeL, idx % LatticeL>>
RMesh == {MeshPoint(idx) : idx \in 0 .. (NSites - 1)}
KMesh == RMesh

\* exp(2*pi*i / LatticeL)
LatticeRoot == Root(LatticeL)
Phase(k, r) == Pow(LatticeRoot, (k[1] * r[1] + k[2] * r[2]) % LatticeL)
PhaseBar(k, r) == Inverse(Phase(k, r))

\* cos(2*pi*m / LatticeL)
CosMesh(m) ==
  Mul(Inverse(Two), Add(Pow(LatticeRoot, m), Inverse(Pow(LatticeRoot, m))))
\* eps(k) = -2*t*(cos(kx) + cos(ky)) at a point of the k mesh
eps(k) == Neg(Mul(Mul(Two, t), Add(CosMesh(k[1]), CosMesh(k[2]))))

\* make_gf_from_fourier<0,1>(G0): (k, i omega_n) -> (r, tau)
FourierKwToRt(G) ==
  LET gkt == [k \in KMesh |-> FourierToTau(G[k])]
  IN  [r \in RMesh |->
        [j \in TauMesh |->
           Mul(Inverse(C(NSites, 0)),
               Sum([idx \in 0 .. (NSites - 1) |->
                      Mul(Phase(MeshPoint(idx), r), gkt[MeshPoint(idx)][j])],
                   NSites - 1))]]

\* bosonic transform of the time axis: exp(i Omega_n tau_j) = Zeta^(2*n*j)
FourierToFreqBoson(gtau) ==
  [n \in IwMesh |->
     Mul(Mul(beta, Inverse(C(NIw, 0))),
         Sum([j \in 0 .. (NIw - 1) |-> Mul(Pow(Zeta, 2 * n * j), gtau[j])], NIw - 1))]

\* make_gf_from_fourier<0,1>(chi0): (r, tau) -> (q, i Omega_n)
FourierRtToKw(chi) ==
  LET crw == [r \in RMesh |-> FourierToFreqBoson(chi[r])]
  IN  [q \in KMesh |->
        [n \in IwMesh |->
           Sum([idx \in 0 .. (NSites - 1) |->
                  Mul(PhaseBar(q, MeshPoint(idx)), crw[MeshPoint(idx)][n])],
               NSites - 1)]]

\* the value of a mesh point of an imaginary-time mesh, and beta, in ticks
TauValueInteriorShifted(j) ==
  j * TicksPerStep + (IF 0 < j /\ j < NIw THEN 1 ELSE 0)
TauValue(j) == j * TicksPerStep
BetaTicks == NIw * TicksPerStep

\* -r of a point of the r mesh: the negated index vector
NegR(r) == <<-r[1], -r[2]>>

\* grt(r, tau): the index vector is wrapped onto the periodic lattice and the
\* time is interpolated linearly between the two mesh points around it
Evaluate(g, r, tau) ==
  LET rw == <<r[1] % LatticeL, r[2] % LatticeL>>
      j == tau \div TicksPerStep
      w == tau % TicksPerStep
  IN  IF w = 0 THEN g[rw][j]
      ELSE Add(Mul(Mul(C(TicksPerStep - w, 0), Inverse(C(TicksPerStep, 0))), g[rw][j]),
               Mul(Mul(C(w, 0), Inverse(C(TicksPerStep, 0))), g[rw][j + 1]))

\* a product taken at r and tau twice
ChiFillNoReflection(grt, r, j) ==
  Mul(Mul(Two, Evaluate(grt, r, TauValue(j))), Evaluate(grt, r, TauValue(j)))

\* a product that reflects the time but not r
ChiFillSameR(grt, r, j) ==
  Mul(Mul(Two, Evaluate(grt, r, BetaTicks - TauValue(j))), Evaluate(grt, r, TauValue(j)))

\* chi0[r, t] = 2*grt(-r, beta - t) * grt(r, t), t the point j of mtb
ChiFill(grt, r, j) ==
  Mul(Mul(Two, Evaluate(grt, NegR(r), BetaTicks - TauValue(j))),
      Evaluate(grt, r, TauValue(j)))

\* the G0 handed to bubble: the lattice Green's function
\* 1/(i omega_n + mu - eps(k)), with one entry replaced by an arbitrary value
PerturbValues == {C(a, b) : a, b \in 0 .. 1}
BubbleInputs ==
  {[k \in KMesh |-> [n \in IwMesh |->
      IF k = pk /\ n = pn THEN v
      ELSE Inverse(Sub(Add(iOmega_n(n), m), eps(k)))]] :
     pk \in KMesh, pn \in IwMesh, v \in PerturbValues, m \in {Zero, One}}

BubbleIdle == [pc |-> "idle", G0 |-> <<>>, grt |-> <<>>, chi0 |-> <<>>, chi0_qw |-> <<>>]

\* ------------------------------------------------------------------------
\* The lattice Green's function of the multivariable notebook
\* ------------------------------------------------------------------------
\* half the number of k points per dimension, and the n_iw of the mesh
HalfNk == 2
n_iw == 3

\* n_k is even (128 in the notebook), so that pi is a point of the k mesh
n_k == 2 * HalfNk
nb_beta == ToF(2000)
nb_t == ToF(1000)
nb_mu == Zero

\* k_mesh = MeshBrZone(bz=BZ, n_k=n_k); iw_mesh = MeshImFreq(beta, 'Fermion', n_iw)
k_mesh == [kind |-> "brzone", n_k |-> n_k]
iw_mesh == [kind |-> "imfreq", beta |-> nb_beta, S |-> "Fermion", n_iw |-> n_iw]
k_iw_mesh == <<k_mesh, iw_mesh>>

\* the points of a mesh: index pairs of the k mesh, Matsubara indices
\* -n_iw .. n_iw-1 of a fermionic frequency mesh, 1-n_iw .. n_iw-1 of a bosonic
MeshPoints(m) ==
  IF m.kind = "brzone" THEN (0 .. (m.n_k - 1)) \X (0 .. (m.n_k - 1))
  ELSE IF m.S = "Fermion" THEN (-m.n_iw) .. (m.n_iw - 1)
  ELSE (1 - m.n_iw) .. (m.n_iw - 1)

\* even multiples of pi/beta for either statistic
MatsubaraValueEven(m, n) ==
  Mul(ImagUnit, Mul(C(2 * n, 0), Mul(PiF, Inverse(m.beta))))

\* the frequency a Matsubara index stands for
MatsubaraValue(m, n) ==
  IF m.S = "Fermion"
  THEN Mul(ImagUnit, Mul(C(2 * n + 1, 0), Mul(PiF, Inverse(m.beta))))
  ELSE Mul(ImagUnit, Mul(C(2 * n, 0), Mul(PiF, Inverse(m.beta))))

\* exp(2*pi*i / n_k) and the cosine of a component of a k mesh point
NkRoot == Root(n_k)
CosK(a) == Mul(Inverse(Two), Add(Pow(NkRoot, a % n_k), Pow(NkRoot, (-a) % n_k)))

\* a dispersion with hopping prefactor t instead of 2*t
EpsOfMeshPointHalved(m) == Neg(Mul(nb_t, Add(CosK(m[1]), CosK(m[2]))))

\* def eps(k): return -2*t * (cos(k[0]) + cos(k[1])), k the mesh point of
\* index pair m
EpsOfMeshPoint(m) == Neg(Mul(Mul(Two, nb_t), Add(CosK(m[1]), CosK(m[2]))))

\* Gf(mesh=k_iw_mesh, target_shape=[])
EmptyG ==
  [mesh |-> k_iw_mesh,
   data |-> [m \in MeshPoints(k_mesh) |-> [n \in MeshPoints(iw_mesh) |-> Zero]]]

\* for k, iw in G.mesh: G[k, iw] = 1/(iw + mu - eps(k))
LoopFilled(G) ==
  [G EXCEPT !.data =
     [m \in MeshPoints(G.mesh[1]) |-> [n \in MeshPoints(G.mesh[2]) |->
        Inverse(Sub(Add(MatsubaraValue(G.mesh[2], n), nb_mu), EpsOfMeshPoint(m)))]]]

\* the points of a mesh in mesh order, and np.array(list(mesh.values()))
KOrder == [idx \in 1 .. (n_k * n_k) |-> <<(idx - 1) \div n_k, (idx - 1) % n_k>>]
IwOrder == [idx \in 1 .. (2 * n_iw) |-> idx - 1 - n_iw]
iw_arr == [idx \in 1 .. (2 * n_iw) |-> MatsubaraValue(iw_mesh, IwOrder[idx])]
eps_arr == [idx \in 1 .. (n_k * n_k) |-> EpsOfMeshPoint(KOrder[idx])]

\* G.data[:] = 1.0 / (iw_arr[None,::] + mu - e_arr[::,None])
BroadcastFilled(G, e_arr) ==
  [G EXCEPT !.data =
     [m \in MeshPoints(G.mesh[1]) |-> [n \in MeshPoints(G.mesh[2]) |->
        Inverse(Sub(Add(iw_arr[n + n_iw + 1], nb_mu), e_arr[m[1] * n_k + m[2] + 1]))]]]

\* a momentum is carried in ticks: TicksPerStep ticks make one mesh step
KTicks == (0 .. (n_k * TicksPerStep - 1)) \X (0 .. (n_k * TicksPerStep - 1))
PiTicks == HalfNk * TicksPerStep
Weight(w) == Mul(C(w, 0), Inverse(C(TicksPerStep, 0)))

\* an interpolation with the weights of the two ends of a step exchanged
EvaluateKSwapped(G, k, n) ==
  LET x0 == k[1] \div TicksPerStep
      y0 == k[2] \div TicksPerStep
      wx == TicksPerStep - (k[1] % TicksPerStep)
      wy == TicksPerStep - (k[2] % TicksPerStep)
      x1 == (x0 + 1) % n_k
      y1 == (y0 + 1) % n_k
      d == G.data
  IN  Add(Add(Mul(Mul(Weight(TicksPerStep - wx), Weight(TicksPerStep - wy)), d[<<x0, y0>>][n]),
              Mul(Mul(Weight(wx), Weight(TicksPerStep - wy)), d[<<x1, y0>>][n])),
          Add(Mul(Mul(Weight(TicksPerStep - wx), Weight(wy)), d[<<x0, y1>>][n]),
              Mul(Mul(Weight(wx), Weight(wy)), d[<<x1, y1>>][n])))

\* G(k, n): linear interpolation on the Brillouin zone between the mesh
\* points around k, the frequency taken at index n
EvaluateK(G, k, n) ==
  LET x0 == k[1] \div TicksPerStep
      y0 == k[2] \div TicksPerStep
      wx == k[1] % TicksPerStep
      wy == k[2] % TicksPerStep
      x1 == (x0 + 1) % n_k
      y1 == (y0 + 1) % n_k
      d == G.data
  IN  Add(Add(Mul(Mul(Weight(TicksPerStep - wx), Weight(TicksPerStep - wy)), d[<<x0, y0>>][n]),
              Mul(Mul(Weight(wx), Weight(TicksPerStep - wy)), d[<<x1, y0>>][n])),
          Add(Mul(Mul(Weight(TicksPerStep - wx), Weight(wy)), d[<<x0, y1>>][n]),
              Mul(Mul(Weight(wx), Weight(wy)), d[<<x1, y1>>][n])))

\* G_exact = 1.0/(1j * (2*2+1)*pi/beta - 4)
G_exact ==
  Inverse(Sub(Mul(ImagUnit, Mul(C(2 * 2 + 1, 0), Mul(PiF, Inverse(nb_beta)))), C(4, 0)))

\* a partial evaluation that keeps the positive frequencies only
PartialEvaluatePositive(G, k0) ==
  [mesh |-> [G.mesh[2] EXCEPT !.kind = "imfreq_positive"],
   data |-> [n \in 0 .. (G.mesh[2].n_iw - 1) |-> Zero]]

\* G(k0, all): a function of the frequency on the frequency mesh of G
PartialEvaluate(G, k0) ==
  [mesh |-> G.mesh[2],
   data |-> [n \in MeshPoints(G.mesh[2]) |-> EvaluateK(G, k0, n)]]

\* hoppings along x only
hopAlongX == [R \in {<<1, 0>>, <<-1, 0>>} |-> Neg(Mul(Two, nb_t))]

\* hop = {(1,0): -t, (-1,0): -t, (0,1): -t, (0,-1): -t}
hop ==
  [R \in {<<1, 0>>, <<-1, 0>>, <<0, 1>>, <<0, -1>>} |-> Neg(nb_t)]

\* TB.dispersion(k_mesh)[0]: sum over the hoppings of amplitude * exp(i k.R)
Dispersion(h) ==
  [idx \in 1 .. (n_k * n_k) |->
     LET m == KOrder[idx]
         Rs == DOMAIN h
         term(R) == Mul(h[R], Pow(NkRoot, (m[1] * R[1] + m[2] * R[2]) % n_k))
         RECURSIVE Total(_)
         Total(S) == IF S = {} THEN Zero
                     ELSE LET R == CHOOSE R \in S : TRUE
                          IN  Add(term(R), Total(S \ {R}))
     IN  Total(Rs)]

NotebookIdle ==
  [pc |-> "idle", G |-> <<>>, Gtb |-> <<>>, call |-> <<>>, G_eval |-> Zero,
   Giw |-> <<>>]

\* ------------------------------------------------------------------------
\* The class IPTSolver
\* ------------------------------------------------------------------------
\* calls made on the first solver in one behaviour
MaxCalls == 4

\* IPTSolver.__init__(beta): the two meshes (numbered as they are created,
\* after the `made` meshes that exist already) and the five Green's functions
NewIPTSolver(b, made) ==
  LET iw == [kind |-> "imfreq", beta |-> b, S |-> "Fermion", id |-> made + 1]
      tau == [kind |-> "imtime", beta |-> b, S |-> "Fermion", id |-> made + 2]
      G == [mesh |-> iw, data |-> ZeroIw]
      Gt == [mesh |-> tau, data |-> ZeroTau]
  IN  [beta |-> b, G_iw |-> G, G0_iw |-> G, Sigma_iw |-> G,
       G0_tau |-> Gt, Sigma_tau |-> Gt]

\* a solve that builds a new imaginary-time function on a mesh of its own
IPTSolverSolveRebuilding(S, U) ==
  LET g0t == FourierToTau(S.G0_iw.data)
      st == IptSigmaTau(U, g0t)
      siw == FourierToFreq(st)
      fresh == [S.G0_tau.mesh EXCEPT !.id = @ + 2]
  IN  [S EXCEPT !.G0_tau = [mesh |-> fresh, data |-> g0t],
                !.Sigma_tau.data = st,
                !.Sigma_iw.data = siw,
                !.G_iw.data = Dyson(S.G0_iw.data, siw)]

\* a solve that adds the new self-energy to the one it finds
IPTSolverSolveAccumulating(S, U) ==
  LET g0t == FourierToTau(S.G0_iw.data)
      st == IptSigmaTau(U, g0t)
      siw == [n \in IwMesh |-> Add(FourierToFreq(st)[n], S.Sigma_iw.data[n])]
  IN  [S EXCEPT !.G0_tau.data = g0t,
                !.Sigma_tau.data = st,
                !.Sigma_iw.data = siw,
                !.G_iw.data = Dyson(S.G0_iw.data, siw)]

\* IPTSolver.solve(U): each "<<" fills the data of an existing object
IPTSolverSolve(S, U) ==
  LET g0t == FourierToTau(S.G0_iw.data)
      st == IptSigmaTau(U, g0t)
      siw == FourierToFreq(st)
  IN  [S EXCEPT !.G0_tau.data = g0t,
                !.Sigma_tau.data = st,
                !.Sigma_iw.data = siw,
                !.G_iw.data = Dyson(S.G0_iw.data, siw)]

\* an update with a chemical potential of 1
IPTLoopUpdateShifted(S) ==
  [S EXCEPT !.G0_iw.data = SelfConsistency(One, S.G_iw.data)]

\* S.G0_iw << inverse( iOmega_n - t**2 * S.G_iw )
IPTLoopUpdate(S) ==
  [S EXCEPT !.G0_iw.data = SelfConsistency(IptMu(<<>>), S.G_iw.data)]

\* the values of U the solver is called with
IptUs == {ToF(1000), ToF(2000)}

\* is g a G0 that satisfies the self-consistency condition for U
IsSelfConsistent(U, g) ==
  LET gt == FourierToTau(g)
      sigma == FourierToFreq([j \in TauMesh |-> Mul(Mul(U, U), Pow(gt[j], 3))])
      G == [n \in IwMesh |-> Inverse(Sub(Inverse(g[n]), sigma[n]))]
  IN  g = [n \in IwMesh |-> Inverse(Sub(iOmega_n(n), Mul(Mul(t, t), G[n])))]

\* the G0 a caller assigns to S.G0_iw: the semicircular one, the free
\* 1/(i omega_n), and for each U one self-consistent G0 (where there is one)
\* among the functions that alternate between two values
Alternating == {[n \in IwMesh |-> IF n % 2 = 0 THEN a ELSE b] : a, b \in Cplx}
SelfConsistentInputs ==
  UNION {LET fps == {g \in Alternating : IsSelfConsistent(U, g)}
         IN  IF fps = {} THEN {} ELSE {CHOOSE g \in fps : TRUE} : U \in IptUs}
IptInputs ==
  {SemiCircular, [n \in IwMesh |-> Inverse(iOmega_n(n))]} \cup SelfConsistentInputs

IptIdle == [pc |-> "idle", S |-> <<>>, S2 |-> <<>>, n_meshes |-> 0, last |-> <<>>,
            calls |-> 0]

\* ------------------------------------------------------------------------
\* Fourier transforms of a lattice function
\* ------------------------------------------------------------------------
\* a back transform with the phases of the forward one
FourierRtToKwSamePhase(g) ==
  LET grw == [r \in RMesh |-> FourierToFreq(g[r])]
  IN  [k \in KMesh |->
        [n \in IwMesh |->
           Sum([idx \in 0 .. (NSites - 1) |->
                  Mul(Phase(k, MeshPoint(idx)), grw[MeshPoint(idx)][n])],
               NSites - 1)]]

\* make_gf_from_fourier<0,1>(g) of a fermionic (r, tau) function
FourierRtToKwFermion(g) ==
  LET grw == [r \in RMesh |-> FourierToFreq(g[r])]
  IN  [k \in KMesh |->
        [n \in IwMesh |->
           Sum([idx \in 0 .. (NSites - 1) |->
                  Mul(PhaseBar(k, MeshPoint(idx)), grw[MeshPoint(idx)][n])],
               NSites - 1)]]

FourierIdle == [pc |-> "idle", f |-> <<>>, f_rt |-> <<>>, f_back |-> <<>>]

\* ------------------------------------------------------------------------
\* Fermionic operators
\* ------------------------------------------------------------------------
\* the largest index within a block that the operator cells are tried with
MaxInner == 1

\* the block names in use, in the order the library compares them (as strings)
BlockNames == <<"down", "down-0", "down-1", "up", "up-0", "up-1">>
\* the place of the fundamental operator pair (b, i) in the canonical order
Rank(b, i) ==
  (CHOOSE k \in 1 .. Len(BlockNames) : BlockNames[k] = b) * (MaxInner + 1) + i

\* An operator is a polynomial in normal-ordered monomials: a function from
\* monomials to non-zero coefficients. A monomial is a sequence of letters,
\* r for the creation and -r for the annihilation operator of rank r; in a
\* normal-ordered monomial the creation operators come first with ascending
\* rank, then the annihilation operators with descending rank.
Operator == [w \in {} |-> 0]
OpCoeff(x, w) == IF w \in DOMAIN x THEN x[w] ELSE 0
OpAdd(x, y) ==
  [w \in {v \in DOMAIN x \cup DOMAIN y : OpCoeff(x, v) + OpCoeff(y, v) # 0} |->
     OpCoeff(x, w) + OpCoeff(y, w)]
OpScale(a, x) == IF a = 0 THEN Operator ELSE [w \in DOMAIN x |-> a * x[w]]
OpSub(x, y) == OpAdd(x, OpScale(-1, y))

\* two adjacent letters that the canonical order wants exchanged
OutOfOrder(x, y) == (x < 0 /\ y > 0) \/ (x * y > 0 /\ x >= y)

RECURSIVE NormalOrder(_)
\* a product of letters rewritten with the anticommutation relations
\* {c_a, c_dag_b} = delta_ab, {c_a, c_b} = 0, {c_dag_a, c_dag_b} = 0
NormalOrder(w) ==
  LET bad == {q \in 1 .. (Len(w) - 1) : OutOfOrder(w[q], w[q + 1])}
  IN  IF bad = {} THEN (w :> 1)
      ELSE LET q == CHOOSE a \in bad : \A b \in bad : a <= b
               swapped == [w EXCEPT ![q] = w[q + 1], ![q + 1] = w[q]]
               removed == SubSeq(w, 1, q - 1) \o SubSeq(w, q + 2, Len(w))
           IN  IF w[q] = w[q + 1] THEN Operator
               ELSE IF w[q] = -w[q + 1]
               THEN OpSub(NormalOrder(removed), NormalOrder(swapped))
               ELSE OpScale(-1, NormalOrder(swapped))

RECURSIVE OpMulTerms(_, _, _)
OpMulTerms(x, y, pairs) ==
  IF pairs = {} THEN Operator
  ELSE LET pr == CHOOSE a \in pairs : TRUE
       IN  OpAdd(OpScale(x[pr[1]] * y[pr[2]], NormalOrder(pr[1] \o pr[2])),
                 OpMulTerms(x, y, pairs \ {pr}))
\* x * y
OpMul(x, y) == OpMulTerms(x, y, (DOMAIN x) \X (DOMAIN y))

\* c_dag(b, i) and c_op(b, i); c_op and n_op stand for c and n of the library
c_dag(b, i) == (<<Rank(b, i)>> :> 1)
c_op(b, i) == (<<-Rank(b, i)>> :> 1)

\* a number operator written in the order c * c_dag
nReversed(b, i) == OpMul(c_op(b, i), c_dag(b, i))

\* n(b, i): the monomial c_dag(b, i) c_op(b, i)
n_op(b, i) == (<<Rank(b, i), -Rank(b, i)>> :> 1)

\* the cells of the operator notebook
\* print(n('up',0) - c_dag('up',0)*c('up',0))
ShouldGiveZero(b, i) == OpSub(n_op(b, i), OpMul(c_dag(b, i), c_op(b, i)))
\* print(n('up',0) - 2 * c_dag('up',0)*c('up',0))
SomeCalculation(b, i) ==
  OpSub(n_op(b, i), OpMul(OpScale(2, c_dag(b, i)), c_op(b, i)))
\* U = 4; mu = 3; H = Operator(); H += U * n('up',0) * n('down',0);
\* H -= mu * (n('up',0) + n('down',0))
HubbardAtom ==
  OpSub(OpAdd(Operator, OpMul(OpScale(4, n_op("up", 0)), n_op("down", 0))),
        OpScale(3, OpAdd(n_op("up", 0), n_op("down", 0))))

RECURSIVE OpSum(_)
\* the sum of a sequence of operators, added one after the other
OpSum(xs) == IF xs = <<>> THEN Operator ELSE OpAdd(OpSum(SubSeq(xs, 1, Len(xs) - 1)), xs[Len(xs)])

\* n_orbitals = 2 and the block names 'up-%s'%o, 'down-%s'%o
n_orbitals == 2
UpBlock(o) == <<"up-0", "up-1">>[o + 1]
DownBlock(o) == <<"down-0", "down-1">>[o + 1]
\* product(list(range(0,n_orbitals)), list(range(0,n_orbitals)))
OrbitalPairs ==
  [k \in 1 .. (n_orbitals * n_orbitals) |->
     <<(k - 1) \div n_orbitals, (k - 1) % n_orbitals>>]
DistinctPair(pr) == pr[1] # pr[2]
DescendingPair(pr) == pr[2] < pr[1]

\* the operators that the statements "h_int += ..." add, in the order the
\* four loops run them; U and J in thousandths, jp the coefficient of the
\* first product of the last loop
KanamoriStatements(U, J, jp) ==
  LET ne == SelectSeq(OrbitalPairs, DistinctPair)
      lt == SelectSeq(OrbitalPairs, DescendingPair)
  IN
  [o \in 1 .. n_orbitals |->
     OpMul(OpScale(U, n_op(UpBlock(o - 1), 0)), n_op(DownBlock(o - 1), 0))]
  \o
  [k \in 1 .. Len(ne) |->
         OpMul(OpScale(U - 2 * J, n_op(UpBlock(ne[k][1]), 0)),
               n_op(DownBlock(ne[k][2]), 0))]
  \o
  Flatten([k \in 1 .. Len(lt) |->
         <<OpMul(OpScale(U - 3 * J, n_op(UpBlock(lt[k][1]), 0)),
                 n_op(UpBlock(lt[k][2]), 0)),
           OpMul(OpScale(U - 3 * J, n_op(DownBlock(lt[k][1]), 0)),
                 n_op(DownBlock(lt[k][2]), 0))>>])
  \o
  Flatten([k \in 1 .. Len(ne) |->
         <<OpMul(OpMul(OpMul(OpScale(jp, c_dag(UpBlock(ne[k][1]), 0)),
                             c_dag(DownBlock(ne[k][1]), 0)),
                       c_op(UpBlock(ne[k][2]), 0)),
                 c_op(DownBlock(ne[k][2]), 0)),
           OpMul(OpMul(OpMul(OpScale(-J, c_dag(UpBlock(ne[k][1]), 0)),
                             c_dag(DownBlock(ne[k][2]), 0)),
                       c_op(UpBlock(ne[k][2]), 0)),
                 c_op(DownBlock(ne[k][1]), 0))>>])

\* the first product of the last loop taken with +J
HIntStatementsPlusJ(U, J) == KanamoriStatements(U, J, J)

\* the statements of two_band.py: both products of the last loop carry -J
HIntStatements(U, J) == KanamoriStatements(U, J, -J)

\* H_HK as the notebook writes it, the operators of each term multiplied
\* in the order of the formula
H_HK(U, J) ==
  LET ne == SelectSeq(OrbitalPairs, DistinctPair)
      lt == SelectSeq(OrbitalPairs, DescendingPair)
      up(o) == Rank(UpBlock(o), 0)
      dn(o) == Rank(DownBlock(o), 0)
      nn(a, b) == NormalOrder(<<a, -a, b, -b>>)
  IN  OpSum(
        [o \in 1 .. n_orbitals |-> OpScale(U, nn(up(o - 1), dn(o - 1)))]
        \o [k \in 1 .. Len(ne) |->
              OpScale(U - 2 * J, nn(up(ne[k][1]), dn(ne[k][2])))]
        \o [k \in 1 .. Len(lt) |->
              OpScale(U - 3 * J, nn(up(lt[k][2]), up(lt[k][1])))]
        \o [k \in 1 .. Len(lt) |->
              OpScale(U - 3 * J, nn(dn(lt[k][2]), dn(lt[k][1])))]
        \o [k \in 1 .. Len(ne) |->
              OpScale(-J, NormalOrder(<<up(ne[k][1]), -dn(ne[k][1]),
                                        dn(ne[k][2]), -up(ne[k][2])>>))]
        \o [k \in 1 .. Len(ne) |->
              OpScale(J, NormalOrder(<<up(ne[k][1]), dn(ne[k][1]),
                                       -dn(ne[k][2]), -up(ne[k][2])>>))])

OpsIdle ==
  [pc |-> "idle", call |-> <<>>, out |-> Operator, pt |-> 0, step |-> 0,
   h_int |-> Operator]

\* ------------------------------------------------------------------------
\* The assignments of the IPT loop
\* ------------------------------------------------------------------------
\* iterations of the loop that are followed assignment by assignment
MaxFillIters == 2

FillNames == {"G0_iw", "G0_tau", "Sigma_tau", "Sigma_iw", "G_iw"}

\* a loop body in which Sigma_iw is transformed before Sigma_tau is filled
FillStatementsSigmaFirst ==
  <<[target |-> "G0_iw", reads |-> {"G_iw"}],
    [target |-> "G0_tau", reads |-> {"G0_iw"}],
    [target |-> "Sigma_iw", reads |-> {"Sigma_tau"}],
    [target |-> "Sigma_tau", reads |-> {"G0_tau"}],
    [target |-> "G_iw", reads |-> {"G0_iw", "Sigma_iw"}]>>

\* the "<<" assignments of one loop iteration, S.G0_iw << ... followed by
\* the four of S.solve, each with the members its right-hand side names
FillStatements ==
  <<[target |-> "G0_iw", reads |-> {"G_iw"}],
    [target |-> "G0_tau", reads |-> {"G0_iw"}],
    [target |-> "Sigma_tau", reads |-> {"G0_tau"}],
    [target |-> "Sigma_iw", reads |-> {"Sigma_tau"}],
    [target |-> "G_iw", reads |-> {"G0_iw", "Sigma_iw"}]>>

\* the value an assignment gives its target, from the members as they are
FillValue(target, S, U) ==
  CASE target = "G0_iw" -> SelfConsistency(Zero, S["G_iw"])
    [] target = "G0_tau" -> FourierToTau(S["G0_iw"])
    [] target = "Sigma_tau" -> IptSigmaTau(U, S["G0_tau"])
    [] target = "Sigma_iw" -> FourierToFreq(S["Sigma_tau"])
    [] target = "G_iw" -> Dyson(S["G0_iw"], S["Sigma_iw"])

\* the members of a new IPTSolver
FillMembers ==
  [m \in FillNames |-> IF m \in {"G0_tau", "Sigma_tau"} THEN ZeroTau ELSE ZeroIw]

\* S: the members; stamp: the iteration that last filled each member (-1
\* the guess, -2 the constructor); order: the targets filled so far in
\* this iteration; last: the latest assignment, the iteration it ran in
\* and the stamp of each member it read
FillsIdle ==
  [pc |-> "idle", pt |-> 0, i |-> -1, k |-> 0, S |-> <<>>, stamp |-> <<>>,
   order |-> <<>>, last |-> <<>>]


\* ------------------------------------------------------------------------
\* State of a run of one of the DMFT scripts
\* ------------------------------------------------------------------------
VARIABLES
  script,     \* which script runs
  filling,    \* the variable filling of two_band.py
  pc,         \* the statement about to run
  pt,         \* index of the current parameter point in the sweep
  i,          \* the loop variable of the DMFT loop
  G_iw, G0_iw, Sigma_iw,   \* S.G_iw, S.G0_iw, S.Sigma_iw: block -> values
  G0_tau, Sigma_tau,       \* members of IPTSolver on the imaginary-time mesh
  prov,       \* which assignment last filled G_iw, Sigma_iw and G0_iw
  files,      \* the archive files on disk
  handles,    \* archives currently open for writing
  iter_log,   \* the steps the current loop iteration has run so far
  nSolves,    \* calls of S.solve that returned
  nUpdates,   \* G0 updates made inside the DMFT loop
  Z_list2,    \* quasiparticle weights collected by the IPT sweep
  rd,         \* the last read of an analysis cell
  bubble,     \* the call of bubble(G0): its argument, locals and result
  nb,         \* the cells of the multivariable Green's function notebook
  ipt,        \* IPTSolver objects driven call by call
  ft,         \* a Fourier transform to (r, tau) and back
  ops,        \* fermionic operator expressions and the h_int under construction
  fills       \* the IPT loop run one assignment at a time

vars ==
  <<script, filling, pc, pt, i, G_iw, G0_iw, Sigma_iw, G0_tau, Sigma_tau, prov,
    files, handles, iter_log, nSolves, nUpdates, Z_list2, rd, bubble, nb, ipt, ft, ops, fills>>

Point == Sweep(script)[pt]
NoRead == [file |-> <<>>, key |-> <<>>, res |-> "none", val |-> <<>>]

solverVars == <<G_iw, G0_iw, Sigma_iw, G0_tau, Sigma_tau, prov>>
archiveVars == <<files, handles>>
loopVars == <<script, filling, pt, i, bubble, nb, ipt, ft, ops, fills>>

Init ==
  /\ script \in Scripts
  /\ filling \in (IF script = "two_band" THEN {"half", "quarter"} ELSE {"half"})
  /\ pc = "for_U"
  /\ pt = 0
  /\ i = -1
  /\ G_iw = [b \in Blocks(script) |-> ZeroIw]
  /\ G0_iw = [b \in Blocks(script) |-> ZeroIw]
  /\ Sigma_iw = [b \in Blocks(script) |-> ZeroIw]
  /\ G0_tau = ZeroTau
  /\ Sigma_tau = ZeroTau
  /\ prov = [G |-> <<"init">>, Sigma |-> <<"init">>, G0 |-> <<"init">>]
  /\ files = NoFile
  /\ handles = <<>>
  /\ iter_log = <<>>
  /\ nSolves = 0
  /\ nUpdates = 0
  /\ Z_list2 = <<>>
  /\ rd = NoRead
  /\ bubble = BubbleIdle
  /\ nb = NotebookIdle
  /\ ipt = IptIdle
  /\ ft = FourierIdle
  /\ ops = OpsIdle
  /\ fills = FillsIdle

\* for U in np.arange(...) (and for coeff in [...]): next point or end
ForU ==
  /\ pc = "for_U"
  /\ IF pt < Len(Sweep(script))
     THEN pt' = pt + 1 /\ pc' = "guess"
     ELSE pt' = pt /\ pc' = "done"
  /\ UNCHANGED <<bubble, nb, ipt, ft, ops, fills, script, filling, i, solverVars, archiveVars, iter_log, nSolves,
                 nUpdates, Z_list2, rd>>

\* a new parameter point that keeps the G_iw of the previous one
GuessGKeepsG ==
  /\ pc = "guess"
  /\ script \in {"ipt", "one_band"}
  /\ i' = -1
  /\ pc' = "for_i"
  /\ iter_log' = <<>>
  /\ UNCHANGED <<bubble, nb, ipt, ft, ops, fills, script, filling, pt, solverVars,
                 archiveVars, nSolves, nUpdates, Z_list2, rd>>

\* S.G_iw << SemiCircular(2*t)
GuessG ==
  /\ pc = "guess"
  /\ script \in {"ipt", "one_band"}
  /\ G_iw' = [b \in Blocks(script) |-> SemiCircular]
  /\ prov' = [prov EXCEPT !.G = <<"guess", pt>>]
  /\ i' = -1
  /\ pc' = "for_i"
  /\ iter_log' = <<>>
  /\ UNCHANGED <<bubble, nb, ipt, ft, ops, fills, script, filling, pt, G0_iw, Sigma_iw, G0_tau, Sigma_tau,
                 archiveVars, nSolves, nUpdates, Z_list2, rd>>

\* S.G0_iw << inverse(iOmega_n + mu - t**2 * SemiCircular(2*t))
GuessG0 ==
  /\ pc = "guess"
  /\ script = "two_band"
  /\ G0_iw' = [b \in Blocks(script) |->
                 SelfConsistency(Mu(script, filling, Point), SemiCircular)]
  /\ prov' = [prov EXCEPT !.G0 = <<"guess", pt>>]
  /\ i' = -1
  /\ pc' = "for_i"
  /\ iter_log' = <<>>
  /\ UNCHANGED <<bubble, nb, ipt, ft, ops, fills, script, filling, pt, G_iw, Sigma_iw, G0_tau, Sigma_tau,
                 archiveVars, nSolves, nUpdates, Z_list2, rd>>

\* for i in range(n_loops): next iteration or leave the loop
ForI ==
  /\ pc = "for_i"
  /\ IF LoopContinues(i, n_loops(script))
     THEN i' = i + 1 /\ pc' = "update" /\ iter_log' = <<>>
     ELSE /\ i' = i
          /\ pc' = (IF script = "ipt" THEN "extract_Z" ELSE "for_U")
          /\ iter_log' = iter_log
  /\ UNCHANGED <<bubble, nb, ipt, ft, ops, fills, script, filling, pt, solverVars, archiveVars, nSolves, nUpdates,
                 Z_list2, rd>>

\* an update that also writes the symmetrized g back into S.G_iw
UpdateG0SymmetrizingG ==
  /\ pc = "update"
  /\ IF script = "two_band" => TwoBandDoesUpdate(i)
     THEN /\ G0_iw' = [b \in Blocks(script) |->
                         SelfConsistency(Mu(script, filling, Point),
                                         Symmetrize(script, G_iw))]
          /\ G_iw' = [b \in Blocks(script) |-> Symmetrize(script, G_iw)]
          /\ prov' = [prov EXCEPT !.G0 = <<"update", pt, i, prov.G>>,
                                  !.G = <<"symmetrize", pt, i>>]
          /\ nUpdates' = nUpdates + 1
          /\ iter_log' = iter_log \o
                (IF script = "ipt" THEN <<"update">> ELSE <<"symmetrize", "update">>)
     ELSE UNCHANGED <<G0_iw, G_iw, prov, nUpdates, iter_log>>
  /\ pc' = "solve"
  /\ UNCHANGED <<loopVars, Sigma_iw, G0_tau, Sigma_tau, archiveVars,
                 nSolves, Z_list2, rd>>

\* g = symmetrized S.G_iw; for name, g0 in S.G0_iw: g0 << inverse(...)
UpdateG0 ==
  /\ pc = "update"
  /\ IF script = "two_band" => TwoBandDoesUpdate(i)
     THEN /\ G0_iw' = [b \in Blocks(script) |->
                         SelfConsistency(Mu(script, filling, Point),
                                         Symmetrize(script, G_iw))]
          /\ prov' = [prov EXCEPT !.G0 = <<"update", pt, i, prov.G>>]
          /\ nUpdates' = nUpdates + 1
          /\ iter_log' = iter_log \o
                (IF script = "ipt" THEN <<"update">> ELSE <<"symmetrize", "update">>)
     ELSE UNCHANGED <<G0_iw, prov, nUpdates, iter_log>>
  /\ pc' = "solve"
  /\ UNCHANGED <<loopVars, G_iw, Sigma_iw, G0_tau, Sigma_tau, archiveVars,
                 nSolves, Z_list2, rd>>

\* IPTSolver.solve(U)
IptSolve ==
  /\ pc = "solve"
  /\ script = "ipt"
  /\ LET g0t == FourierToTau(G0_iw["scalar"])
         st == IptSigmaTau(ToF(Point.U), g0t)
         siw == FourierToFreq(st)
     IN  /\ G0_tau' = g0t
         /\ Sigma_tau' = st
         /\ Sigma_iw' = [b \in Blocks(script) |-> siw]
         /\ G_iw' = [b \in Blocks(script) |-> Dyson(G0_iw["scalar"], siw)]
  /\ prov' = [prov EXCEPT !.G = <<"solve", pt, i>>, !.Sigma = <<"solve", pt, i>>]
  /\ nSolves' = nSolves + 1
  /\ iter_log' = Append(iter_log, "solve")
  /\ pc' = "for_i"
  /\ UNCHANGED <<loopVars, G0_iw, archiveVars, nUpdates, Z_list2, rd>>

\* S.solve(h_int = ..., n_cycles = ..., ...) of the CTQMC solver returns
CtqmcSolve ==
  /\ pc = "solve"
  /\ script \in Ctqmc
  /\ \E k \in 1 .. NSamples :
       /\ G_iw' = [b \in Blocks(script) |-> McSample(k, script, b)]
       /\ Sigma_iw' = [b \in Blocks(script) |->
                         CtqmcSigma(G0_iw[b], McSample(k, script, b))]
  /\ prov' = [prov EXCEPT !.G = <<"solve", pt, i>>, !.Sigma = <<"solve", pt, i>>]
  /\ nSolves' = nSolves + 1
  /\ iter_log' = Append(iter_log, "solve")
  /\ pc' = "open"
  /\ UNCHANGED <<loopVars, G0_iw, G0_tau, Sigma_tau, archiveVars, nUpdates,
                 Z_list2, rd>>

\* a failure that is caught: the loop body goes on to the archive
SolveFailureSkipped ==
  /\ pc = "solve"
  /\ script \in Ctqmc
  /\ pc' = "open"
  /\ UNCHANGED <<loopVars, solverVars, archiveVars, iter_log, nSolves, nUpdates,
                 Z_list2, rd>>

\* S.solve raises: nothing catches it, the script ends
SolveFails ==
  /\ pc = "solve"
  /\ script \in Ctqmc
  /\ pc' = "crashed"
  /\ UNCHANGED <<loopVars, solverVars, archiveVars, iter_log, nSolves, nUpdates,
                 Z_list2, rd>>

\* with HDFArchive(...) as A:
ArchiveOpen ==
  /\ pc = "open"
  /\ files' = OpenAppend(files, ArchiveFile(script, filling, Point))
  /\ handles' = Append(handles, ArchiveFile(script, filling, Point))
  /\ iter_log' = Append(iter_log, "open")
  /\ pc' = "write_G"
  /\ UNCHANGED <<loopVars, solverVars, nSolves, nUpdates, Z_list2, rd>>

\* A['G-%i'%i] = S.G_iw
ArchiveWriteG ==
  /\ pc = "write_G"
  /\ files' = Store(files, handles[Len(handles)], KeyG(i),
                    [obj |-> "G_iw", by |-> prov.G])
  /\ iter_log' = Append(iter_log, "write_G")
  /\ pc' = "write_Sigma"
  /\ UNCHANGED <<loopVars, solverVars, handles, nSolves, nUpdates, Z_list2, rd>>

\* A['Sigma-%i'%i] = S.Sigma_iw
ArchiveWriteSigma ==
  /\ pc = "write_Sigma"
  /\ files' = Store(files, handles[Len(handles)], KeySigma(i),
                    [obj |-> "Sigma_iw", by |-> prov.Sigma])
  /\ iter_log' = Append(iter_log, "write_Sigma")
  /\ pc' = "close"
  /\ UNCHANGED <<loopVars, solverVars, handles, nSolves, nUpdates, Z_list2, rd>>

\* end of the with block
ArchiveClose ==
  /\ pc = "close"
  /\ handles' = CloseArchive(handles)
  /\ iter_log' = Append(iter_log, "close")
  /\ pc' = "for_i"
  /\ UNCHANGED <<loopVars, solverVars, files, nSolves, nUpdates, Z_list2, rd>>

\* a Z taken from G_iw instead of Sigma_iw
ExtractZFromG ==
  /\ pc = "extract_Z"
  /\ Z_list2' = Append(Z_list2,
        Inverse(Sub(One, Mul(C(Im(G_iw["scalar"][0]), 0),
                             Mul(beta, Inverse(PiF))))))
  /\ pc' = "for_U"
  /\ UNCHANGED <<loopVars, solverVars, archiveVars, iter_log, nSolves, nUpdates, rd>>

\* Z = 1 / (1 - (S.Sigma_iw(0)[0,0].imag * beta / np.pi)); Z_list2.append(Z)
ExtractZ ==
  /\ pc = "extract_Z"
  /\ Z_list2' = Append(Z_list2,
        Inverse(Sub(One, Mul(C(Im(Sigma_iw["scalar"][0]), 0),
                             Mul(beta, Inverse(PiF))))))
  /\ pc' = "for_U"
  /\ UNCHANGED <<loopVars, solverVars, archiveVars, iter_log, nSolves, nUpdates, rd>>

\* an analysis cell opens an archive for reading and reads one key
AnalysisRead ==
  /\ pc = "done"
  /\ \E r \in AnalysisReads(script, filling) :
       rd' = [file |-> r.file, key |-> r.key,
              res |-> IF r.file \notin DOMAIN files THEN "no_file"
                      ELSE IF r.key \notin DOMAIN files[r.file] THEN "no_key"
                      ELSE "ok",
              val |-> IF r.file \in DOMAIN files /\ r.key \in DOMAIN files[r.file]
                      THEN files[r.file][r.key] ELSE <<>>]
  /\ UNCHANGED <<loopVars, pc, solverVars, archiveVars, iter_log, nSolves,
                 nUpdates, Z_list2>>

Next ==
  \/ ForU
  \/ GuessG
  \/ GuessG0
  \/ ForI
  \/ UpdateG0
  \/ IptSolve
  \/ CtqmcSolve
  \/ SolveFails
  \/ ArchiveOpen
  \/ ArchiveWriteG
  \/ ArchiveWriteSigma
  \/ ArchiveClose
  \/ ExtractZ
  \/ AnalysisRead

Spec == Init /\ [][Next]_vars

\* ------------------------------------------------------------------------
\* A call of bubble(G0)
\* ------------------------------------------------------------------------
dmftVars ==
  <<script, filling, pc, pt, i, G_iw, G0_iw, Sigma_iw, G0_tau, Sigma_tau, prov,
    files, handles, iter_log, nSolves, nUpdates, Z_list2, rd>>

InitBubble ==
  /\ script = "ipt"
  /\ filling = "half"
  /\ pc = "idle"
  /\ pt = 0
  /\ i = -1
  /\ G_iw = [b \in Blocks(script) |-> ZeroIw]
  /\ G0_iw = [b \in Blocks(script) |-> ZeroIw]
  /\ Sigma_iw = [b \in Blocks(script) |-> ZeroIw]
  /\ G0_tau = ZeroTau
  /\ Sigma_tau = ZeroTau
  /\ prov = [G |-> <<"init">>, Sigma |-> <<"init">>, G0 |-> <<"init">>]
  /\ files = NoFile
  /\ handles = <<>>
  /\ iter_log = <<>>
  /\ nSolves = 0
  /\ nUpdates = 0
  /\ Z_list2 = <<>>
  /\ rd = NoRead
  /\ \E g \in BubbleInputs : bubble = [BubbleIdle EXCEPT !.pc = "called", !.G0 = g]
  /\ nb = NotebookIdle
  /\ ipt = IptIdle
  /\ ft = FourierIdle
  /\ ops = OpsIdle
  /\ fills = FillsIdle

\* auto grt = make_gf_from_fourier<0,1>(G0);
BubbleFourier ==
  /\ bubble.pc = "called"
  /\ bubble' = [bubble EXCEPT !.pc = "fill", !.grt = FourierKwToRt(bubble.G0)]
  /\ UNCHANGED <<dmftVars, nb, ipt, ft, ops, fills>>

\* for (auto const &r : mr) for (auto const &t : mtb) chi0[r, t] = ...
BubbleFill ==
  /\ bubble.pc = "fill"
  /\ bubble' = [bubble EXCEPT !.pc = "filled",
                  !.chi0 = [r \in RMesh |-> [j \in TauMesh |-> ChiFill(bubble.grt, r, j)]]]
  /\ UNCHANGED <<dmftVars, nb, ipt, ft, ops, fills>>

\* return make_gf_from_fourier<0,1>(chi0);
BubbleReturn ==
  /\ bubble.pc = "filled"
  /\ bubble' = [bubble EXCEPT !.pc = "returned", !.chi0_qw = FourierRtToKw(bubble.chi0)]
  /\ UNCHANGED <<dmftVars, nb, ipt, ft, ops, fills>>

NextBubble ==
  \/ BubbleFourier
  \/ BubbleFill
  \/ BubbleReturn

SpecBubble == InitBubble /\ [][NextBubble]_vars

\* ------------------------------------------------------------------------
\* The cells of the multivariable Green's function notebook
\* ------------------------------------------------------------------------
\* no DMFT script runs
DmftIdle ==
  /\ script = "ipt"
  /\ filling = "half"
  /\ pc = "idle"
  /\ pt = 0
  /\ i = -1
  /\ G_iw = [b \in Blocks(script) |-> ZeroIw]
  /\ G0_iw = [b \in Blocks(script) |-> ZeroIw]
  /\ Sigma_iw = [b \in Blocks(script) |-> ZeroIw]
  /\ G0_tau = ZeroTau
  /\ Sigma_tau = ZeroTau
  /\ prov = [G |-> <<"init">>, Sigma |-> <<"init">>, G0 |-> <<"init">>]
  /\ files = NoFile
  /\ handles = <<>>
  /\ iter_log = <<>>
  /\ nSolves = 0
  /\ nUpdates = 0
  /\ Z_list2 = <<>>
  /\ rd = NoRead

\* G = Gf(mesh=k_iw_mesh, target_shape=[])
InitLattice ==
  /\ DmftIdle
  /\ bubble = BubbleIdle
  /\ ipt = IptIdle
  /\ ft = FourierIdle
  /\ ops = OpsIdle
  /\ fills = FillsIdle
  /\ nb = [NotebookIdle EXCEPT !.pc = "loop_fill", !.G = EmptyG]

\* for k, iw in G.mesh: G[k, iw] = 1/(iw + mu - eps(k))
LoopFill ==
  /\ nb.pc = "loop_fill"
  /\ nb' = [nb EXCEPT !.pc = "broadcast_fill", !.G = LoopFilled(nb.G)]
  /\ UNCHANGED <<dmftVars, bubble, ipt, ft, ops, fills>>

\* eps_arr = np_eps(k_arr); G.data[:] = 1.0 / (iw_arr[None,::] + mu - eps_arr[::,None])
BroadcastFill ==
  /\ nb.pc = "broadcast_fill"
  /\ nb' = [nb EXCEPT !.pc = "cells", !.G = BroadcastFilled(nb.G, eps_arr)]
  /\ UNCHANGED <<dmftVars, bubble, ipt, ft, ops, fills>>

\* Each of the cells below reads G only; a behaviour runs one of them.
\* G_eval = G(k, n); nb.call is the call the cell made
EvaluateCell ==
  /\ nb.pc = "cells"
  /\ \E k \in KTicks, n \in MeshPoints(nb.G.mesh[2]) :
       nb' = [nb EXCEPT !.pc = "evaluated", !.call = <<"G", k, n>>,
                        !.G_eval = EvaluateK(nb.G, k, n)]
  /\ UNCHANGED <<dmftVars, bubble, ipt, ft, ops, fills>>

\* Giw = G(k0, all)
PartialEvaluationCell ==
  /\ nb.pc = "cells"
  /\ \E k0 \in KTicks :
       nb' = [nb EXCEPT !.pc = "partially_evaluated", !.call = <<"G", k0, "all">>,
                        !.Giw = PartialEvaluate(nb.G, k0)]
  /\ UNCHANGED <<dmftVars, bubble, ipt, ft, ops, fills>>

\* eps_k = TB.dispersion(k_mesh)[0]; Gtb = G.copy(); Gtb.data[:] = ...
TightBindingCell ==
  /\ nb.pc = "cells"
  /\ nb' = [nb EXCEPT !.pc = "tight_binding_done", !.call = <<"TB.dispersion">>,
                      !.Gtb = BroadcastFilled(nb.G, Dispersion(hop))]
  /\ UNCHANGED <<dmftVars, bubble, ipt, ft, ops, fills>>

NextLattice ==
  \/ LoopFill
  \/ BroadcastFill
  \/ EvaluateCell
  \/ PartialEvaluationCell
  \/ TightBindingCell

SpecLattice == InitLattice /\ [][NextLattice]_vars

\* ------------------------------------------------------------------------
\* Calls on IPTSolver objects
\* ------------------------------------------------------------------------
\* S = IPTSolver(beta = beta)
InitIpt ==
  /\ DmftIdle
  /\ bubble = BubbleIdle
  /\ nb = NotebookIdle
  /\ ft = FourierIdle
  /\ ops = OpsIdle
  /\ fills = FillsIdle
  /\ ipt = [IptIdle EXCEPT !.pc = "ready", !.S = NewIPTSolver(beta, 0),
                           !.n_meshes = 2, !.last = <<"init">>]

\* S.G0_iw << g: the caller sets G0
AssignG0 ==
  /\ ipt.pc = "ready"
  /\ ipt.calls < MaxCalls
  /\ \E g \in IptInputs :
       ipt' = [ipt EXCEPT !.S.G0_iw.data = g, !.last = <<"G0">>, !.calls = @ + 1]
  /\ UNCHANGED <<dmftVars, bubble, nb, ft, ops, fills>>

\* S.G0_iw << inverse( iOmega_n - t**2 * S.G_iw )
LoopUpdate ==
  /\ ipt.pc = "ready"
  /\ ipt.calls < MaxCalls
  /\ ipt' = [ipt EXCEPT !.S = IPTLoopUpdate(@), !.last = <<"update">>, !.calls = @ + 1]
  /\ UNCHANGED <<dmftVars, bubble, nb, ft, ops, fills>>

\* S.solve(U = U)
Solve ==
  /\ ipt.pc = "ready"
  /\ ipt.calls < MaxCalls
  /\ \E U \in IptUs :
       ipt' = [ipt EXCEPT !.S = IPTSolverSolve(@, U), !.last = <<"solve", U>>,
                          !.calls = @ + 1]
  /\ UNCHANGED <<dmftVars, bubble, nb, ft, ops, fills>>

\* S2 = IPTSolver(beta = beta); S2.G0_iw << S.G0_iw: a solver without
\* history gets the G0 of the first one after a solve
SecondSolver ==
  /\ ipt.pc = "ready"
  /\ ipt.last[1] = "solve"
  /\ ipt' = [ipt EXCEPT !.pc = "second",
                        !.S2 = [NewIPTSolver(beta, ipt.n_meshes)
                                  EXCEPT !.G0_iw.data = ipt.S.G0_iw.data],
                        !.n_meshes = @ + 2]
  /\ UNCHANGED <<dmftVars, bubble, nb, ft, ops, fills>>

\* S2.solve(U = U) with the U of the last solve of S
SecondSolve ==
  /\ ipt.pc = "second"
  /\ ipt' = [ipt EXCEPT !.pc = "compared", !.S2 = IPTSolverSolve(@, ipt.last[2])]
  /\ UNCHANGED <<dmftVars, bubble, nb, ft, ops, fills>>

NextIpt ==
  \/ AssignG0
  \/ LoopUpdate
  \/ Solve
  \/ SecondSolver
  \/ SecondSolve

SpecIpt == InitIpt /\ [][NextIpt]_vars

\* ------------------------------------------------------------------------
\* A Fourier transform and its inverse
\* ------------------------------------------------------------------------
InitFourier ==
  /\ DmftIdle
  /\ bubble = BubbleIdle
  /\ nb = NotebookIdle
  /\ ipt = IptIdle
  /\ \E f \in BubbleInputs : ft = [FourierIdle EXCEPT !.pc = "forward", !.f = f]
  /\ ops = OpsIdle
  /\ fills = FillsIdle

\* make_gf_from_fourier<0,1>(f): (k, i omega_n) -> (r, tau)
FourierForward ==
  /\ ft.pc = "forward"
  /\ ft' = [ft EXCEPT !.pc = "back", !.f_rt = FourierKwToRt(ft.f)]
  /\ UNCHANGED <<dmftVars, bubble, nb, ipt, ops, fills>>

\* make_gf_from_fourier<0,1>(f_rt): (r, tau) -> (k, i omega_n)
FourierBack ==
  /\ ft.pc = "back"
  /\ ft' = [ft EXCEPT !.pc = "done", !.f_back = FourierRtToKwFermion(ft.f_rt)]
  /\ UNCHANGED <<dmftVars, bubble, nb, ipt, ops, fills>>

NextFourier ==
  \/ FourierForward
  \/ FourierBack

SpecFourier == InitFourier /\ [][NextFourier]_vars

\* ------------------------------------------------------------------------
\* The operator cells and the construction of h_int
\* ------------------------------------------------------------------------
InitOperators ==
  /\ DmftIdle
  /\ bubble = BubbleIdle
  /\ nb = NotebookIdle
  /\ ipt = IptIdle
  /\ ft = FourierIdle
  /\ fills = FillsIdle
  /\ ops = [OpsIdle EXCEPT !.pc = "cells"]

BlockSet == {BlockNames[k] : k \in 1 .. Len(BlockNames)}

\* print(n(b,i) - c_dag(b,i)*c(b,i))
ShouldGiveZeroCell ==
  /\ ops.pc = "cells"
  /\ \E b \in BlockSet, j \in 0 .. MaxInner :
       ops' = [ops EXCEPT !.pc = "printed", !.call = <<"should_give_zero", b, j>>,
                          !.out = ShouldGiveZero(b, j)]
  /\ UNCHANGED <<dmftVars, bubble, nb, ipt, ft, fills>>

\* print(n(b,i) - 2 * c_dag(b,i)*c(b,i))
SomeCalculationCell ==
  /\ ops.pc = "cells"
  /\ \E b \in BlockSet, j \in 0 .. MaxInner :
       ops' = [ops EXCEPT !.pc = "printed", !.call = <<"some_calculation", b, j>>,
                          !.out = SomeCalculation(b, j)]
  /\ UNCHANGED <<dmftVars, bubble, nb, ipt, ft, fills>>

\* H = Operator(); H += ...; H -= ...; print(H)
HubbardAtomCell ==
  /\ ops.pc = "cells"
  /\ ops' = [ops EXCEPT !.pc = "printed", !.call = <<"H">>, !.out = HubbardAtom]
  /\ UNCHANGED <<dmftVars, bubble, nb, ipt, ft, fills>>

\* h_int = Operator() at a parameter point of two_band.py
HIntEmpty ==
  /\ ops.pc = "cells"
  /\ \E p \in 1 .. Len(TwoBandSweep) :
       ops' = [ops EXCEPT !.pc = "h_int", !.pt = p, !.step = 0, !.h_int = Operator]
  /\ UNCHANGED <<dmftVars, bubble, nb, ipt, ft, fills>>

\* the next h_int += ... of the four loops
HIntAdd ==
  /\ ops.pc = "h_int"
  /\ LET stmts == HIntStatements(TwoBandSweep[ops.pt].U, JOf(TwoBandSweep[ops.pt]))
     IN  /\ ops.step < Len(stmts)
         /\ ops' = [ops EXCEPT !.step = @ + 1,
                               !.h_int = OpAdd(ops.h_int, stmts[ops.step + 1])]
  /\ UNCHANGED <<dmftVars, bubble, nb, ipt, ft, fills>>

\* the loops are over: h_int is what S.solve(h_int = h_int, ...) receives
HIntComplete ==
  /\ ops.pc = "h_int"
  /\ ops.step = Len(HIntStatements(TwoBandSweep[ops.pt].U, JOf(TwoBandSweep[ops.pt])))
  /\ ops' = [ops EXCEPT !.pc = "h_int_done"]
  /\ UNCHANGED <<dmftVars, bubble, nb, ipt, ft, fills>>

NextOperators ==
  \/ ShouldGiveZeroCell
  \/ SomeCalculationCell
  \/ HubbardAtomCell
  \/ HIntEmpty
  \/ HIntAdd
  \/ HIntComplete

SpecOperators == InitOperators /\ [][NextOperators]_vars

\* ------------------------------------------------------------------------
\* The IPT loop, one assignment at a time
\* ------------------------------------------------------------------------
InitFills ==
  /\ DmftIdle
  /\ bubble = BubbleIdle
  /\ nb = NotebookIdle
  /\ ipt = IptIdle
  /\ ft = FourierIdle
  /\ ops = OpsIdle
  /\ \E p \in 1 .. Len(IptSweep) :
       fills = [FillsIdle EXCEPT !.pc = "guess", !.pt = p, !.S = FillMembers,
                                 !.stamp = [m \in FillNames |-> -2]]

\* S.G_iw << SemiCircular(2*t)
FillGuess ==
  /\ fills.pc = "guess"
  /\ fills' = [fills EXCEPT !.pc = "for_i", !.S["G_iw"] = SemiCircular,
                            !.stamp["G_iw"] = -1, !.i = -1]
  /\ UNCHANGED <<dmftVars, bubble, nb, ipt, ft, ops>>

\* for i in range(n_loops)
FillForI ==
  /\ fills.pc = "for_i"
  /\ IF fills.i + 1 < MaxFillIters /\ LoopContinues(fills.i, n_loops_ipt)
     THEN fills' = [fills EXCEPT !.pc = "body", !.i = @ + 1, !.k = 1, !.order = <<>>]
     ELSE fills' = [fills EXCEPT !.pc = "done"]
  /\ UNCHANGED <<dmftVars, bubble, nb, ipt, ft, ops>>

\* the next "<<" of the loop body
FillAssign ==
  /\ fills.pc = "body"
  /\ LET st == FillStatements[fills.k]
     IN  fills' = [fills EXCEPT
           !.S[st.target] = FillValue(st.target, fills.S, ToF(IptSweep[fills.pt].U)),
           !.stamp[st.target] = fills.i,
           !.order = Append(@, st.target),
           !.last = [target |-> st.target, at |-> fills.i,
                     seen |-> [m \in st.reads |-> fills.stamp[m]]],
           !.k = @ + 1,
           !.pc = IF fills.k = Len(FillStatements) THEN "for_i" ELSE "body"]
  /\ UNCHANGED <<dmftVars, bubble, nb, ipt, ft, ops>>

NextFills ==
  \/ FillGuess
  \/ FillForI
  \/ FillAssign

SpecFills == InitFills /\ [][NextFills]_vars

\* ------------------------------------------------------------------------
\* Properties of the DMFT loops
\* ------------------------------------------------------------------------
\* arithmetic mean of the blocks of G, frequency by frequency
MeanOverBlocks(s, G) ==
  [n \in IwMesh |->
     Mul(Inverse(C(Len(BlockOrder(s)), 0)),
         Sum([k \in 0 .. (Len(BlockOrder(s)) - 1) |-> G[BlockOrder(s)[k + 1]][n]],
             Len(BlockOrder(s)) - 1))]

\* the chemical potential each script is said to use
MuStated ==
  LET U == ToF(Point.U)
      J == ToF(JOf(Point))
      c == ToF(Point.coeff)
      UU == Mul(U, U)
  IN  CASE script = "ipt" -> Zero
        [] script = "one_band" -> Mul(U, Inverse(Two))
        [] script = "two_band" /\ filling = "half" ->
             Sub(Mul(Dec(15, 1), U), Mul(Dec(25, 1), J))
        [] script = "two_band" /\ filling = "quarter" ->
             Sub(Add(Add(Mul(Dec(6899, 4), U), Mul(Dec(2709, 5), Mul(c, UU))),
                     Neg(Dec(81, 2))),
                 Add(Add(Mul(Dec(11099, 4), Mul(c, U)), Mul(Dec(2548, 5), UU)),
                     Mul(Dec(1606, 4), Mul(Mul(c, c), UU))))

\* iterations of the current parameter point whose body has run to its end
IterationsDone ==
  CASE pc = "guess" -> 0
    [] pc \in {"for_i", "for_U", "done", "extract_Z"} -> i + 1
    [] OTHER -> i

\* C2: when S.solve is about to be called, G0 has just been set, and every
\* block of G0_iw is inverse(i*omega_n + mu - t^2 * g), with g the block mean
\* of the G_iw of the most recent solve of this parameter point, or the
\* semicircular guess when no solve has run yet for it, and mu the chemical
\* potential of the script.
C2_G0FromSelfConsistency ==
  pc = "solve" =>
    /\ i > 0 => prov.G = <<"solve", pt, i - 1>>
    /\ \A b \in Blocks(script), n \in IwMesh :
         G0_iw[b][n] =
           Inverse(Sub(Add(iOmega_n(n), MuStated),
                       Mul(Mul(t, t),
                           IF i = 0 THEN SemiCircular[n]
                           ELSE MeanOverBlocks(script, G_iw)[n])))

C2_Witness ==
  /\ pc = "solve"
  /\ script = "two_band"
  /\ filling = "quarter"
  /\ i > 0
  /\ pt > 13
  /\ G_iw["up-0"] # G_iw["down-1"]

\* C3: after IPTSolver.solve(U), Sigma_iw is the Fourier transform of
\* U^2 * G0(tau)^3 with G0(tau) the Fourier transform of G0_iw, without any
\* constant term, and 1/G_iw = 1/G0_iw - Sigma_iw at every frequency.
C3_IptSolve ==
  (script = "ipt" /\ pc = "for_i" /\ iter_log = <<"update", "solve">>) =>
    LET g0 == FourierToTau(G0_iw["scalar"])
        U == ToF(Point.U)
    IN  /\ Sigma_iw["scalar"] =
             FourierToFreq([j \in TauMesh |-> Mul(Pow(U, 2), Pow(g0[j], 3))])
        /\ \A n \in IwMesh :
             Inverse(G_iw["scalar"][n]) =
               Sub(Inverse(G0_iw["scalar"][n]), Sigma_iw["scalar"][n])

C3_Witness ==
  /\ script = "ipt"
  /\ pc = "for_i"
  /\ iter_log = <<"update", "solve">>
  /\ Point.U = 4000
  /\ i > 1
  /\ Sigma_iw["scalar"] # ZeroIw
  /\ G_iw["scalar"] # G0_iw["scalar"]

\* the statement pc names is one the running script holds, so a step follows
StatementCanRun ==
  \/ pc \in {"for_U", "guess", "for_i", "update", "solve", "done"}
  \/ pc = "extract_Z" /\ script = "ipt"
  \/ pc \in {"open", "write_G", "write_Sigma", "close", "crashed"} /\ script \in Ctqmc

\* C4: every parameter point gets exactly n_loops solves, whatever the values
\* of G, and a sweep in which no solve fails ends after
\* (number of points) * n_loops solves; the script never hangs before that.
C4_FixedIterationCount ==
  /\ i < n_loops(script)
  /\ pc # "crashed" =>
       nSolves = (IF pt = 0 THEN 0 ELSE (pt - 1) * n_loops(script))
                 + (IF pc = "guess" \/ pt = 0 THEN 0
                    ELSE IF pc \in {"update", "solve"} THEN i ELSE i + 1)
  /\ pc = "for_U" /\ pt > 0 => nSolves = pt * n_loops(script)
  /\ pc = "done" => nSolves = Len(Sweep(script)) * n_loops(script)
  /\ StatementCanRun

C4_Witness ==
  /\ pc = "done"
  /\ script = "two_band"
  /\ nSolves = 360
  /\ G_iw["up-0"] # G_iw["up-1"]

\* C5 as stated: the two CTQMC loops run symmetrize, update, solve, archive in
\* every iteration, iteration 0 included, so updates and solves are as many.
C5_SameLoopStructure ==
  script \in Ctqmc =>
    /\ pc = "solve" => iter_log = <<"symmetrize", "update">>
    /\ pc = "done" => nUpdates = nSolves

\* the steps of iteration i before the solve
StepsBeforeSolve ==
  IF script = "two_band" /\ i = 0 THEN <<>> ELSE <<"symmetrize", "update">>

\* C5 (amended): iterations i > 0 of the two-orbital loop run symmetrize,
\* update, solve, archive like every iteration of the single-orbital loop;
\* iteration 0 of each parameter point of the two-orbital loop runs solve,
\* archive only, on the G0 set from the semicircular guess before the loop.
\* Over a complete run the in-loop G0 updates number as many as the solves in
\* the single-orbital script and (solves - parameter points) in the
\* two-orbital script.
C5_LoopStructure ==
  script \in Ctqmc =>
    /\ pc = "solve" => iter_log = StepsBeforeSolve
    /\ pc = "for_i" /\ i >= 0 =>
         iter_log = StepsBeforeSolve \o
                      <<"solve", "open", "write_G", "write_Sigma", "close">>
    /\ pc = "done" =>
         nUpdates = IF script = "one_band" THEN nSolves
                    ELSE nSolves - Len(Sweep(script))

C5_Witness ==
  /\ script = "two_band"
  /\ pc = "for_i"
  /\ i = 0
  /\ pt = 2
  /\ iter_log = <<"solve", "open", "write_G", "write_Sigma", "close">>

\* C6: at every call of S.solve of a CTQMC loop all blocks of G0_iw are
\* equal, and after an in-loop update each of them is the self-consistency
\* expression of the arithmetic mean of all blocks of S.G_iw.
C6_G0BlocksEqual ==
  (script \in Ctqmc /\ pc = "solve") =>
    /\ \A b1, b2 \in Blocks(script) : G0_iw[b1] = G0_iw[b2]
    /\ iter_log # <<>> =>
         \A b \in Blocks(script) :
           G0_iw[b] = SelfConsistency(Mu(script, filling, Point),
                                      MeanOverBlocks(script, G_iw))

C6_Witness ==
  /\ script = "two_band"
  /\ pc = "solve"
  /\ iter_log # <<>>
  /\ \E b1, b2 \in Blocks(script) : G_iw[b1] # G_iw[b2]
  /\ G_iw["up-0"] # MeanOverBlocks(script, G_iw)

\* the key '<name>-<j>' of an iteration j < 100, written out digit by digit
KeyNamed(name, j) ==
  <<name>> \o (IF j < 10 THEN <<DigitChar(j)>>
               ELSE <<DigitChar(j \div 10), DigitChar(j % 10)>>)

\* the keys the archive of the current parameter point holds at this point
\* of the run
KeysOfIterations(m) ==
  {KeyNamed("G-", j) : j \in 0 .. (m - 1)} \cup {KeyNamed("Sigma-", j) : j \in 0 .. (m - 1)}
KeysExpected(q) ==
  IF q < pt THEN KeysOfIterations(n_loops(script))
  ELSE KeysOfIterations(IterationsDone)
       \cup (IF pc \in {"write_Sigma", "close"} THEN {KeyNamed("G-", i)} ELSE {})
       \cup (IF pc = "close" THEN {KeyNamed("Sigma-", i)} ELSE {})

\* C7: iteration i writes exactly 'G-<i>' and 'Sigma-<i>' into the archive of
\* the current parameter point, holding the G_iw and Sigma_iw of the solve of
\* iteration i; a finished point's archive holds exactly the keys of
\* iterations 0 .. n_loops-1.
C7_ArchiveKeys ==
  script \in Ctqmc =>
    /\ DOMAIN files \subseteq {ArchiveFile(script, filling, Sweep(script)[q]) : q \in 1 .. pt}
    /\ \A q \in 1 .. pt :
         LET f == ArchiveFile(script, filling, Sweep(script)[q])
         IN  /\ (q < pt \/ IterationsDone > 0) => f \in DOMAIN files
             /\ f \in DOMAIN files =>
                  /\ DOMAIN files[f] = KeysExpected(q)
                  /\ \A j \in 0 .. (n_loops(script) - 1) :
                       /\ KeyNamed("G-", j) \in DOMAIN files[f] =>
                            files[f][KeyNamed("G-", j)] =
                              [obj |-> "G_iw", by |-> <<"solve", q, j>>]
                       /\ KeyNamed("Sigma-", j) \in DOMAIN files[f] =>
                            files[f][KeyNamed("Sigma-", j)] =
                              [obj |-> "Sigma_iw", by |-> <<"solve", q, j>>]

C7_Witness ==
  /\ script = "one_band"
  /\ pc = "done"
  /\ Cardinality(DOMAIN files) = 12
  /\ \A f \in DOMAIN files : Cardinality(DOMAIN files[f]) = 20

\* C8 as stated: the two-orbital script writes its archives into
\* data/two_band, so every archive the half-filling analysis cells open
\* exists and holds the key they read.
C8_AnalysisFindsTwoBandArchives ==
  (script = "two_band" /\ filling = "half") =>
    /\ \A f \in DOMAIN files : f[1] = "data/two_band/"
    /\ rd.res \in {"none", "ok"}

C10_ArchiveDiscipline ==
  script \in Ctqmc =>
    /\ Len(handles) <= 1
    /\ \A a, b \in 1 .. Len(handles) : a # b => handles[a] # handles[b]
    /\ pc \in {"write_G", "write_Sigma", "close"} =>
         handles = <<ArchiveFile(script, filling, Point)>>
    /\ pc \notin {"write_G", "write_Sigma", "close"} => handles = <<>>
    /\ pc = "for_i" /\ i >= 0 =>
         /\ SelectSeq(iter_log, LAMBDA e : e \in {"open", "write_G", "write_Sigma", "close"})
              = <<"open", "write_G", "write_Sigma", "close">>
         /\ \E k \in 1 .. Len(iter_log) :
              /\ iter_log[k] = "solve"
              /\ SubSeq(iter_log, k + 1, Len(iter_log))
                   = <<"open", "write_G", "write_Sigma", "close">>

C10_Witness ==
  /\ script = "two_band"
  /\ pc = "close"
  /\ i = 3
  /\ handles = <<ArchiveFile(script, filling, Point)>>
  /\ KeySigma(3) \in DOMAIN files[handles[1]]

\* ------------------------------------------------------------------------
\* Properties of the bubble
\* ------------------------------------------------------------------------
\* -r brought back onto the periodic lattice mesh
Reflect(r) == <<(LatticeL - r[1]) % LatticeL, (LatticeL - r[2]) % LatticeL>>

\* C1: for every point r of the real-space mesh and every point tau_j of the
\* bosonic time mesh, chi0[r, tau_j] = 2 * g(r, tau_j) * g(-r, beta - tau_j),
\* g being the Fourier transform of G0, -r the reflected lattice point and
\* beta - tau_j the mesh point of index NIw - j.
C1_BubbleProduct ==
  bubble.pc \in {"filled", "returned"} =>
    LET g == FourierKwToRt(bubble.G0)
    IN  \A r \in RMesh, j \in TauMesh :
          bubble.chi0[r][j] = Mul(Two, Mul(g[r][j], g[Reflect(r)][NIw - j]))

C1_Witness ==
  /\ bubble.pc = "filled"
  /\ \E r \in RMesh :
       /\ Reflect(r) # r
       /\ bubble.grt[r] # bubble.grt[Reflect(r)]
       /\ bubble.chi0[r][1] # Zero
       /\ bubble.chi0[r][1] # Mul(Two, Mul(bubble.grt[r][1], bubble.grt[r][NIw - 1]))
       /\ bubble.chi0[r][0] # Mul(Two, Mul(bubble.grt[r][0], bubble.grt[Reflect(r)][0]))

\* ------------------------------------------------------------------------
\* Failure of a solve
\* ------------------------------------------------------------------------
\* what the archives hold when the solve of iteration i of point pt failed:
\* the complete files of the earlier points, and the keys of iterations
\* 0 .. i-1 of the current point (no file at all when i = 0)
ArchivesAtCrash ==
  /\ handles = <<>>
  /\ nSolves = (pt - 1) * n_loops(script) + i
  /\ \A q \in 1 .. pt :
       LET f == ArchiveFile(script, filling, Sweep(script)[q])
           m == IF q < pt THEN n_loops(script) ELSE i
       IN  IF m = 0 THEN f \notin DOMAIN files
           ELSE /\ f \in DOMAIN files
                /\ DOMAIN files[f] = KeysOfIterations(m)
                /\ \A j \in 0 .. (m - 1) :
                     /\ files[f][KeyNamed("G-", j)].by = <<"solve", q, j>>
                     /\ files[f][KeyNamed("Sigma-", j)].by = <<"solve", q, j>>
  /\ \A q \in (pt + 1) .. Len(Sweep(script)) :
       ArchiveFile(script, filling, Sweep(script)[q]) \notin DOMAIN files

\* C11: a solve of a CTQMC script that does not return ends the script at
\* once (it is neither caught nor retried); the step changes no archive, no
\* 'G-<i>' or 'Sigma-<i>' of the failed iteration exists, the earlier entries
\* are as they were written, and no statement runs after the failure.
C11_FailedSolveStops ==
  /\ [](pc = "crashed" => ArchivesAtCrash)
  /\ [][/\ (script \in Ctqmc /\ pc = "solve" /\ nSolves' = nSolves) => pc' = "crashed"
        /\ pc' = "crashed" => (pc = "solve" /\ files' = files /\ handles' = handles)
        /\ pc # "crashed"]_vars

C11_Witness ==
  /\ pc = "crashed"
  /\ script = "two_band"
  /\ pt = 2
  /\ i = 3
  /\ Cardinality(DOMAIN files) = 2

\* ------------------------------------------------------------------------
\* Properties of the lattice Green's function
\* ------------------------------------------------------------------------
\* a momentum that is exactly a point of the k mesh, and the index of it
OnGrid(k) == k[1] % TicksPerStep = 0 /\ k[2] % TicksPerStep = 0
GridIndex(k) == <<k[1] \div TicksPerStep, k[2] \div TicksPerStep>>

C13_EvaluateOnGrid ==
  (nb.pc = "evaluated" /\ OnGrid(nb.call[2])) =>
    /\ nb.G_eval = nb.G.data[GridIndex(nb.call[2])][nb.call[3]]
    /\ (nb.call[2] = <<PiTicks, PiTicks>> /\ nb.call[3] = 2) =>
         /\ nb.G_eval = G_exact
         /\ nb.G_eval =
              Inverse(Sub(Add(Mul(ImagUnit, Mul(C(5, 0), Mul(PiF, Inverse(nb_beta)))),
                              nb_mu),
                          Mul(C(4, 0), nb_t)))

C13_Witness ==
  /\ nb.pc = "evaluated"
  /\ nb.call = <<"G", <<PiTicks, PiTicks>>, 2>>
  /\ nb.G_eval # Zero
  /\ nb.G_eval # nb.G.data[<<HalfNk, HalfNk + 1>>][2]
  /\ nb.G_eval # nb.G.data[<<HalfNk, HalfNk>>][1]

\* C14: the Green's function built from the TightBinding dispersion equals
\* the one built from eps(k) = -2t(cos kx + cos ky) at every (k, i*omega_n)
\* point of the mesh.
C14_TightBindingEqualsAnalytic ==
  nb.pc = "tight_binding_done" =>
    /\ nb.G = LoopFilled(EmptyG)
    /\ nb.Gtb.mesh = nb.G.mesh
    /\ \A m \in MeshPoints(k_mesh), n \in MeshPoints(iw_mesh) :
         nb.Gtb.data[m][n] = nb.G.data[m][n]

C14_Witness ==
  /\ nb.pc = "tight_binding_done"
  /\ \E m1, m2 \in MeshPoints(k_mesh) : nb.Gtb.data[m1][0] # nb.Gtb.data[m2][0]
  /\ \A m \in MeshPoints(k_mesh) : nb.Gtb.data[m][0] # Zero

SelfConsistentFor(U) ==
  LET g0 == ipt.S.G0_iw.data
      G == ipt.S.G_iw.data
      gt == FourierToTau(g0)
      sigma == FourierToFreq([j \in TauMesh |-> Mul(Mul(U, U), Pow(gt[j], 3))])
  IN  /\ g0 = [n \in IwMesh |-> Inverse(Sub(iOmega_n(n), Mul(Mul(t, t), G[n])))]
      /\ G = [n \in IwMesh |-> Inverse(Sub(Inverse(g0[n]), sigma[n]))]

\* C16: when G0 and G satisfy the self-consistency condition for U, the
\* steps of one more loop iteration, the update of G0 from G and the solve
\* with U, each leave G0 and G as they are.
C16_FixedPointIdempotent ==
  [][\A U \in IptUs :
       (/\ ipt.pc = "ready"
        /\ SelfConsistentFor(U)
        /\ ipt'.calls = ipt.calls + 1
        /\ ipt'.last \in {<<"update">>, <<"solve", U>>})
       => /\ ipt'.S.G0_iw = ipt.S.G0_iw
          /\ ipt'.S.G_iw = ipt.S.G_iw]_vars

C16_Witness ==
  /\ ipt.pc = "ready"
  /\ ipt.calls = 4
  /\ \E U \in IptUs : ipt.last = <<"solve", U>> /\ SelfConsistentFor(U)
  /\ ipt.S.Sigma_iw.data # ZeroIw
  /\ ipt.S.G_iw.data # ipt.S.G0_iw.data

\* the meshes of a solver are the two its __init__ created
MeshesOfInit(S, made) ==
  /\ S.G_iw.mesh = S.G0_iw.mesh
  /\ S.Sigma_iw.mesh = S.G0_iw.mesh
  /\ S.G0_iw.mesh.id = made + 1
  /\ S.G0_tau.mesh = S.Sigma_tau.mesh
  /\ S.G0_tau.mesh.id = made + 2

\* what a call of solve leaves alone in the solver it is called on
SolveFrame(S, T) ==
  /\ T.beta = S.beta
  /\ T.G0_iw = S.G0_iw
  /\ T.G_iw.mesh = S.G_iw.mesh
  /\ T.Sigma_iw.mesh = S.Sigma_iw.mesh
  /\ T.G0_tau.mesh = S.G0_tau.mesh
  /\ T.Sigma_tau.mesh = S.Sigma_tau.mesh
  /\ DOMAIN T = DOMAIN S

\* C17: solve constructs no mesh and no Green's function: the frequency
\* mesh shared by G_iw, G0_iw, Sigma_iw and the time mesh shared by G0_tau,
\* Sigma_tau are those of __init__ at every call, and solve leaves beta and
\* G0_iw unchanged, writing only into G0_tau, Sigma_tau, Sigma_iw and G_iw.
C17_SolveFrame ==
  /\ [](ipt.pc # "idle" =>
          /\ MeshesOfInit(ipt.S, 0)
          /\ ipt.S2 # <<>> => MeshesOfInit(ipt.S2, 2)
          /\ ipt.n_meshes = IF ipt.S2 = <<>> THEN 2 ELSE 4)
  /\ [][/\ (ipt'.calls = ipt.calls + 1 /\ ipt'.last[1] = "solve") =>
             /\ SolveFrame(ipt.S, ipt'.S)
             /\ ipt'.n_meshes = ipt.n_meshes
             /\ ipt'.S2 = ipt.S2
        /\ (ipt.pc = "second" /\ ipt'.pc = "compared") =>
             /\ SolveFrame(ipt.S2, ipt'.S2)
             /\ ipt'.n_meshes = ipt.n_meshes
             /\ ipt'.S = ipt.S]_vars

C17_Witness ==
  /\ ipt.pc = "compared"
  /\ ipt.calls = 3
  /\ ipt.S.G0_tau.data # ZeroTau
  /\ ipt.S.Sigma_iw.data # ZeroIw
  /\ ipt.S.G_iw.data # ipt.S.G0_iw.data

\* C18: the G_iw and Sigma_iw left by solve(U) depend on U and on the G0_iw
\* at the call only: a solver without history given the same G0_iw and U
\* ends with the same G_iw and Sigma_iw as one with any history, and a
\* second solve(U) in a row changes neither.
C18_SolveStateless ==
  /\ [](ipt.pc = "compared" =>
          /\ ipt.S2.G0_iw.data = ipt.S.G0_iw.data
          /\ ipt.S2.G_iw.data = ipt.S.G_iw.data
          /\ ipt.S2.Sigma_iw.data = ipt.S.Sigma_iw.data)
  /\ [][(/\ ipt.pc = "ready"
         /\ ipt.last[1] = "solve"
         /\ ipt'.last = ipt.last
         /\ ipt'.calls = ipt.calls + 1)
        => /\ ipt'.S.G_iw = ipt.S.G_iw
           /\ ipt'.S.Sigma_iw = ipt.S.Sigma_iw]_vars

C18_Witness ==
  /\ ipt.pc = "compared"
  /\ ipt.calls = 4
  /\ ipt.S.Sigma_iw.data # ZeroIw
  /\ ipt.S.G0_tau.data = ipt.S2.G0_tau.data
  /\ ipt.S.G_iw.data # ipt.S.G0_iw.data

\* ------------------------------------------------------------------------
\* Arguments of g in the fill of the bubble
\* ------------------------------------------------------------------------
\* C19: in the fill of chi0 every argument of g is a point of its mesh:
\* tau_j and beta - tau_j are the time mesh points j and NIw - j, -r wraps
\* to a lattice point, and the factors of chi0[r, tau_j] are the values
\* stored there, at r = 0, tau = 0 and tau = beta included.
C19_FillOnGrid ==
  bubble.pc \in {"filled", "returned"} =>
    \A r \in RMesh, j \in TauMesh :
      /\ TauValue(j) % TicksPerStep = 0
      /\ TauValue(j) \div TicksPerStep = j
      /\ (BetaTicks - TauValue(j)) % TicksPerStep = 0
      /\ (BetaTicks - TauValue(j)) \div TicksPerStep = NIw - j
      /\ (NIw - j) \in TauMesh
      /\ <<NegR(r)[1] % LatticeL, NegR(r)[2] % LatticeL>> = Reflect(r)
      /\ Reflect(r) \in RMesh
      /\ Evaluate(bubble.grt, r, TauValue(j)) = bubble.grt[r][j]
      /\ Evaluate(bubble.grt, NegR(r), BetaTicks - TauValue(j))
           = bubble.grt[Reflect(r)][NIw - j]
      /\ bubble.chi0[r][j]
           = Mul(Mul(Two, bubble.grt[Reflect(r)][NIw - j]), bubble.grt[r][j])

C19_Witness ==
  /\ bubble.pc = "filled"
  /\ \E r \in RMesh : NegR(r) \notin RMesh /\ bubble.chi0[r][NIw] # Zero
  /\ bubble.chi0[<<0, 0>>][0]
       = Mul(Mul(Two, bubble.grt[<<0, 0>>][NIw]), bubble.grt[<<0, 0>>][0])
  /\ bubble.chi0[<<0, 0>>][0] # Zero
  /\ bubble.grt[<<0, 0>>][0] # bubble.grt[<<0, 0>>][NIw]
  /\ Mul(Two, bubble.grt[<<0, 0>>][1])
       # Add(bubble.grt[<<0, 0>>][0], bubble.grt[<<0, 0>>][2])

\* ------------------------------------------------------------------------
\* Matsubara indices
\* ------------------------------------------------------------------------
\* the bosonic mesh of the same size as iw_mesh
BosonMesh == [iw_mesh EXCEPT !.S = "Boson"]

\* C20: index n of a fermionic Matsubara mesh stands for i(2n+1)pi/beta and
\* index n of a bosonic one for i*2n*pi/beta: the lattice Green's function
\* holds 1/(i(2n+1)pi/beta + mu - eps(k)) at index n, its value at
\* (pi, pi, 0) and index 2 is the one at 5i*pi/beta, and index 0 of a
\* bosonic mesh is the zero frequency.
C20_MatsubaraIndex ==
  /\ nb.pc \notin {"idle", "loop_fill"} =>
       \A k \in MeshPoints(k_mesh), n \in MeshPoints(iw_mesh) :
         nb.G.data[k][n] =
           Inverse(Sub(Add(Mul(ImagUnit,
                               Mul(C(2 * n + 1, 0), Mul(PiF, Inverse(nb_beta)))),
                           nb_mu),
                       EpsOfMeshPoint(k)))
  /\ (nb.pc = "evaluated" /\ nb.call = <<"G", <<PiTicks, PiTicks>>, 2>>) =>
       nb.G_eval =
         Inverse(Sub(Mul(ImagUnit, Mul(C(5, 0), Mul(PiF, Inverse(nb_beta)))),
                     EpsOfMeshPoint(<<HalfNk, HalfNk>>)))
  /\ \A n \in MeshPoints(BosonMesh) :
       MatsubaraValue(BosonMesh, n)
         = Mul(ImagUnit, Mul(C(2 * n, 0), Mul(PiF, Inverse(nb_beta))))
  /\ 0 \in MeshPoints(BosonMesh)
  /\ MatsubaraValue(BosonMesh, 0) = Zero
  /\ iOmega_nBoson(0) = Zero

C20_Witness ==
  /\ nb.pc = "evaluated"
  /\ nb.call = <<"G", <<PiTicks, PiTicks>>, 2>>
  /\ nb.G_eval = G_exact
  /\ nb.G.data[<<0, 0>>][0] # nb.G.data[<<0, 0>>][-1]
  /\ nb.G.data[<<0, 0>>][2] # nb.G.data[<<0, 0>>][1]

C23_HIntIsKanamori ==
  ops.pc = "h_int_done" =>
    ops.h_int = H_HK(TwoBandSweep[ops.pt].U, JOf(TwoBandSweep[ops.pt]))

C23_Witness ==
  /\ ops.pc = "h_int_done"
  /\ JOf(TwoBandSweep[ops.pt]) > 0
  /\ ops.step = 10
  /\ Cardinality(DOMAIN ops.h_int) = 10
  /\ Cardinality({w \in DOMAIN ops.h_int :
                     w[1] # -w[4] /\ ops.h_int[w] = JOf(TwoBandSweep[ops.pt])}) = 4

\* ------------------------------------------------------------------------
\* Order of the assignments of the IPT loop
\* ------------------------------------------------------------------------
FillOrder == <<"G0_iw", "G0_tau", "Sigma_tau", "Sigma_iw", "G_iw">>

\* C25: in every iteration of the IPT loop G0_iw, G0_tau, Sigma_tau,
\* Sigma_iw, G_iw are each filled once, in this order; an assignment never
\* reads its own target, and what it reads was filled earlier in the same
\* iteration or is the G_iw of the iteration before (the guess, for the
\* first); at the end of an iteration the five hold one consistent set
\* computed from that iteration's G0_iw.
C25_FillOrder ==
  fills.pc \in {"body", "for_i", "done"} =>
    /\ fills.order = SubSeq(FillOrder, 1, Len(fills.order))
    /\ (fills.pc \in {"for_i", "done"} /\ fills.i >= 0) =>
         /\ fills.order = FillOrder
         /\ \A m \in FillNames : fills.stamp[m] = fills.i
         /\ fills.S["G0_tau"] = FourierToTau(fills.S["G0_iw"])
         /\ fills.S["Sigma_tau"] =
              [j \in TauMesh |->
                 Mul(Mul(ToF(IptSweep[fills.pt].U), ToF(IptSweep[fills.pt].U)),
                     Pow(fills.S["G0_tau"][j], 3))]
         /\ fills.S["Sigma_iw"] = FourierToFreq(fills.S["Sigma_tau"])
         /\ fills.S["G_iw"] =
              [w \in IwMesh |-> Inverse(Sub(Inverse(fills.S["G0_iw"][w]),
                                            fills.S["Sigma_iw"][w]))]
    /\ fills.last # <<>> =>
         /\ fills.last.target \notin DOMAIN fills.last.seen
         /\ \A m \in DOMAIN fills.last.seen :
              \/ fills.last.seen[m] = fills.last.at
              \/ m = "G_iw" /\ fills.last.seen[m] = fills.last.at - 1

C25_Witness ==
  /\ fills.pc = "for_i"
  /\ fills.i = 1
  /\ fills.order = FillOrder
  /\ fills.last.target = "G_iw"
  /\ fills.S["Sigma_iw"] # ZeroIw
  /\ fills.S["G_iw"] # SemiCircular

\* ------------------------------------------------------------------------
\* Start of a parameter point
\* ------------------------------------------------------------------------
\* C26: at the first solve of every parameter point G0_iw is
\* inverse(i*omega_n + mu - t^2 * SemiCircular) with the point's own mu: it
\* was set from the guess of this point, not from the G_iw or Sigma_iw the
\* previous point left; in two_band.py the stale G_iw of the previous point
\* is still in S.G_iw at that moment and has not been read.
C26_FirstSolveFromGuess ==
  (pc = "solve" /\ i = 0) =>
    /\ prov.G0 = IF script = "two_band" THEN <<"guess", pt>>
                 ELSE <<"update", pt, 0, <<"guess", pt>>>>
    /\ \A b \in Blocks(script), w \in IwMesh :
         G0_iw[b][w] =
           Inverse(Sub(Add(iOmega_n(w), MuStated), Mul(Mul(t, t), SemiCircular[w])))
    /\ (script = "two_band" /\ pt > 1) =>
         prov.G = <<"solve", pt - 1, n_loops_two_band - 1>>
    /\ (script # "two_band") => prov.G = <<"guess", pt>>

C26_Witness ==
  /\ pc = "solve"
  /\ i = 0
  /\ pt = 2
  /\ script = "two_band"
  /\ prov.Sigma = <<"solve", 1, n_loops_two_band - 1>>
  /\ \E b \in Blocks(script) : G_iw[b] # SemiCircular /\ G_iw[b] # ZeroIw

\* ------------------------------------------------------------------------
\* The non-interacting point of the IPT sweep
\* ------------------------------------------------------------------------
\* C27: at U = 0 of the IPT sweep, after every solve Sigma_iw is zero and
\* G_iw equals G0_iw, and the Z appended for that point is 1.
C27_NonInteractingZ ==
  script = "ipt" =>
    /\ (pt >= 1 /\ IptSweep[pt].U = 0 /\ prov.Sigma[1] = "solve" /\ prov.Sigma[2] = pt) =>
         /\ Sigma_iw["scalar"] = ZeroIw
         /\ Sigma_tau = ZeroTau
         /\ G_iw = G0_iw
    /\ \A q \in 1 .. Len(Z_list2) : IptSweep[q].U = 0 => Z_list2[q] = One

C27_Witness ==
  /\ script = "ipt"
  /\ pt = 1
  /\ IptSweep[pt].U = 0
  /\ pc = "for_U"
  /\ Z_list2 = <<One>>
  /\ i = n_loops_ipt - 1
  /\ nSolves = n_loops_ipt
  /\ G_iw["scalar"] # ZeroIw

\* ------------------------------------------------------------------------
\* Symmetrization and the archived G
\* ------------------------------------------------------------------------
\* C28: in the CTQMC loops the symmetrize-and-update step leaves S.G_iw as
\* it is; the 'G-<i>' just stored is the G_iw that the solve of iteration i
\* returned, and the blocks of G0_iw handed to the solver are equal.
C28_SymmetrizationIsTemporary ==
  /\ [](script \in Ctqmc =>
          /\ pc = "write_Sigma" =>
               /\ prov.G = <<"solve", pt, i>>
               /\ files[handles[Len(handles)]][KeyNamed("G-", i)]
                    = [obj |-> "G_iw", by |-> <<"solve", pt, i>>]
          /\ pc = "solve" => \A b1, b2 \in Blocks(script) : G0_iw[b1] = G0_iw[b2])
  /\ [][(script \in Ctqmc /\ pc = "update") =>
          (G_iw' = G_iw /\ prov'.G = prov.G)]_vars

C28_Witness ==
  /\ script = "one_band"
  /\ pc = "write_Sigma"
  /\ i > 0
  /\ G_iw["up"] # G_iw["down"]
  /\ G0_iw["up"] = G0_iw["down"]
  /\ files[handles[Len(handles)]][KeyNamed("G-", i)].by = <<"solve", pt, i>>

\* ------------------------------------------------------------------------
\* Reflection symmetry of chi0
\* ------------------------------------------------------------------------
\* C29: chi0[r, tau_j] = chi0[-r, beta - tau_j] at every point of the
\* (r, tau) grid, for every G0 handed to bubble.
C29_ChiReflection ==
  bubble.pc \in {"filled", "returned"} =>
    \A r \in RMesh, j \in TauMesh :
      /\ Reflect(Reflect(r)) = r
      /\ bubble.chi0[r][j] = bubble.chi0[Reflect(r)][NIw - j]

C29_Witness ==
  /\ bubble.pc = "filled"
  /\ \E r \in RMesh, j \in TauMesh :
       /\ Reflect(r) # r
       /\ 2 * j # NIw
       /\ bubble.chi0[r][j] # Zero
       /\ bubble.grt[r][j] # bubble.grt[Reflect(r)][j]
       /\ bubble.grt[r][j] # bubble.grt[r][NIw - j]
       /\ bubble.chi0[r][j] # bubble.chi0[r][1]

\* ------------------------------------------------------------------------
\* One archive file per parameter point
\* ------------------------------------------------------------------------
\* C30: the file names of two different parameter points of a sweep differ,
\* the file opened in the first iteration of a point does not exist yet, and
\* a write of 'G-<i>' or 'Sigma-<i>' adds a key the file does not have and
\* leaves every other key and file as it was.
C30_NoOverwrite ==
  /\ [](script \in Ctqmc =>
          /\ (pc = "for_U" /\ pt = 0) =>
               \A p, q \in 1 .. Len(Sweep(script)) :
                 p # q => ArchiveFile(script, filling, Sweep(script)[p])
                            # ArchiveFile(script, filling, Sweep(script)[q])
          /\ (pc = "open" /\ i = 0) =>
               ArchiveFile(script, filling, Point) \notin DOMAIN files)
  /\ [][(pc \in {"write_G", "write_Sigma"} /\ pc' # pc) =>
          LET f == handles[Len(handles)]
          IN  /\ DOMAIN files' = DOMAIN files
              /\ \A g \in DOMAIN files : g # f => files'[g] = files[g]
              /\ Cardinality(DOMAIN files'[f]) = Cardinality(DOMAIN files[f]) + 1
              /\ \A k \in DOMAIN files[f] : files'[f][k] = files[f][k]]_vars

C30_Witness ==
  /\ script = "two_band"
  /\ pc = "close"
  /\ pt = Len(TwoBandSweep)
  /\ i = n_loops_two_band - 1
  /\ Cardinality(DOMAIN files) = Len(TwoBandSweep)
  /\ \A f \in DOMAIN files : Cardinality(DOMAIN files[f]) = 2 * n_loops_two_band
====
